---- MODULE Spec2Model ----
(***************************************************************************)
(* Document import pipeline of graphrag_mcp_server.document_import:        *)
(* chunkers (chunker/base.py, default.py, japanese.py), the correlation    *)
(* graph (models.py, correlation.py) and the import orchestrator           *)
(* (importer.py).                                                          *)
(*                                                                         *)
(* Text is a sequence of one-character strings.  Offsets are 0-based as in *)
(* Python; Slice(s, a, b) is s[a:b].  The character "K" stands for the     *)
(* Japanese sentence-final markers and "T" for the Japanese comma, which   *)
(* the module language cannot spell.                                       *)
(***************************************************************************)
EXTENDS Integers, Sequences, FiniteSets, TLC

(***************************************************************************)
(* Bounds of the model.                                                    *)
(***************************************************************************)
MaxText == 4        \* total number of characters over the elements of a document
MaxElems == 2       \* number of elements handed to chunk_elements
MaxChunkSize == 3   \* largest chunk_size tried
MaxChunks == 3      \* number of chunks handed to build_graph, nodes of a new graph
MaxEdges == 3       \* number of direct add_correlation calls on one graph
MaxFiles == 2       \* number of paths of the file system
MaxSpread == 2      \* how far around the limits of ImportConfig the sizes are tried
MaxCacheSize == 2   \* largest max_size of a SearchCache
MaxTime == 2        \* how far the clock runs
MaxCount == 1       \* cap of the counters of the cache statistics
MaxCalls == 3       \* cached_search calls made in all
MaxSentences == 4   \* sentences of a text given to the DefaultChunker

(***************************************************************************)
(* Characters.                                                             *)
(***************************************************************************)
WHITESPACE == {" ", "\n"}            \* what str.strip(), str.split() and \s remove
DEFAULT_ENDINGS == {".", "!", "?"}   \* the class [.!?] of DefaultChunker.SENTENCE_ENDINGS
SENTENCE_ENDINGS == {"K"}            \* JapaneseChunker.SENTENCE_ENDINGS
PHRASE_MARKERS == {"T", "\n"}        \* JapaneseChunker.PHRASE_MARKERS
SEPARATOR == <<"\n", "\n">>          \* the separator between elements

Kinds == {"default", "japanese"}
InputChars(kind) == IF kind = "default" THEN {"a", ".", " "} ELSE {"a", "K", " "}

(***************************************************************************)
(* Python string primitives.                                               *)
(***************************************************************************)
MinOf(S) == CHOOSE x \in S : \A y \in S : x <= y
MaxOf(S) == CHOOSE x \in S : \A y \in S : x >= y

Slice(s, a, b) ==
    LET hi == IF b < Len(s) THEN b ELSE Len(s)
    IN  IF a >= hi THEN <<>> ELSE SubSeq(s, a + 1, hi)

\* the offsets of the characters of s that are not whitespace
Inked(s) == {i \in 0..(Len(s) - 1) : s[i + 1] \notin WHITESPACE}

LStrip(s) == IF Inked(s) = {} THEN <<>> ELSE Slice(s, MinOf(Inked(s)), Len(s))

RStrip(s) == IF Inked(s) = {} THEN <<>> ELSE Slice(s, 0, MaxOf(Inked(s)) + 1)

Strip(s) == LStrip(RStrip(s))

\* str.find(sub, start): the lowest offset >= start where sub occurs, else -1
Find(text, sub, start) ==
    LET hits == {i \in start..(Len(text) - Len(sub)) :
                    SubSeq(text, i + 1, i + Len(sub)) = sub}
    IN  IF hits = {} THEN -1 ELSE MinOf(hits)

\* str.rfind(sub, start, end) for a one-character sub
RFindChar(text, c, start, end) ==
    LET hi == IF end < Len(text) THEN end ELSE Len(text)
        hits == {i \in start..(hi - 1) : text[i + 1] = c}
    IN  IF hits = {} THEN -1 ELSE MaxOf(hits)

\* len(text.split()): the number of maximal runs of non-whitespace
WordCount(text) ==
    Cardinality({i \in 1..Len(text) :
        /\ text[i] \notin WHITESPACE
        /\ (i = 1 \/ text[i - 1] \in WHITESPACE)})

RECURSIVE JoinWith(_, _)
JoinWith(parts, sep) ==
    IF parts = <<>> THEN <<>>
    ELSE IF Len(parts) = 1 THEN parts[1]
    ELSE parts[1] \o sep \o JoinWith(Tail(parts), sep)

RECURSIVE SumLen(_)
SumLen(parts) == IF parts = <<>> THEN 0 ELSE Len(parts[1]) + SumLen(Tail(parts))

\* [s.strip() for s in parts if s.strip()]
RECURSIVE StripAll(_)
StripAll(parts) ==
    IF parts = <<>> THEN <<>>
    ELSE IF Strip(parts[1]) = <<>> THEN StripAll(Tail(parts))
    ELSE <<Strip(parts[1])>> \o StripAll(Tail(parts))

(***************************************************************************)
(* DefaultChunker                                                          *)
(***************************************************************************)
\* the end of the run of whitespace that starts at offset i
SkipSpaces(text, i) ==
    LET inked == {k \in Inked(text) : k >= i}
    IN  IF inked = {} THEN Len(text) ELSE MinOf(inked)

\* re.split on (?<=[.!?])\s+ : a run of whitespace that follows . ! or ? ends a
\* piece; from is the offset at which the current piece starts
RECURSIVE RegexSplit(_, _, _)
RegexSplit(text, from, acc) ==
    LET matches == {i \in from..(Len(text) - 1) :
                       /\ text[i + 1] \in WHITESPACE
                       /\ i > 0
                       /\ text[i] \in DEFAULT_ENDINGS}
    IN  IF matches = {} THEN Append(acc, Slice(text, from, Len(text)))
        ELSE RegexSplit(text, SkipSpaces(text, MinOf(matches)),
                        Append(acc, Slice(text, from, MinOf(matches))))

DefaultSplitSentences(text) ==
    IF text = <<>> THEN <<>> ELSE StripAll(RegexSplit(text, 0, <<>>))

\* variant of count_tokens that counts the separators instead of the words
DefaultCountTokensSeparators(text) ==
    Cardinality({i \in 1..Len(text) : text[i] \in WHITESPACE})

DefaultCountTokens(text) == IF text = <<>> THEN 0 ELSE WordCount(text)

\* variant of the overlap loop that keeps the last sentence alone
OverlapLastSentence(current_chunk, k, chunk_overlap, acc) ==
    IF k = 0 \/ Len(current_chunk[k]) > chunk_overlap THEN acc
    ELSE <<current_chunk[k]>> \o acc

\* the sentences kept for overlap: taken from the end while they fit
RECURSIVE OverlapSentences(_, _, _, _)
OverlapSentences(current_chunk, k, chunk_overlap, acc) ==
    IF k = 0 THEN acc
    ELSE IF SumLen(acc) + Len(current_chunk[k]) <= chunk_overlap
         THEN OverlapSentences(current_chunk, k - 1, chunk_overlap,
                               <<current_chunk[k]>> \o acc)
         ELSE acc

\* variant of the loop that tests the buffer alone, without the incoming sentence
RECURSIVE DefaultPackLate(_, _, _, _, _, _)
DefaultPackLate(sentences, k, chunks, current_chunk, chunk_size, chunk_overlap) ==
    IF k > Len(sentences)
    THEN IF current_chunk # <<>> THEN Append(chunks, current_chunk) ELSE chunks
    ELSE LET sentence == sentences[k]
             flush == /\ SumLen(current_chunk) > chunk_size
                      /\ current_chunk # <<>>
             kept == IF ~flush THEN current_chunk
                     ELSE IF chunk_overlap > 0
                          THEN OverlapSentences(current_chunk, Len(current_chunk),
                                                chunk_overlap, <<>>)
                          ELSE <<>>
         IN  DefaultPackLate(sentences, k + 1,
                             IF flush THEN Append(chunks, current_chunk) ELSE chunks,
                             Append(kept, sentence), chunk_size, chunk_overlap)

\* the loop of chunk_text, as the list of chunks, each the list of its sentences
RECURSIVE DefaultPack(_, _, _, _, _, _)
DefaultPack(sentences, k, chunks, current_chunk, chunk_size, chunk_overlap) ==
    IF k > Len(sentences)
    THEN IF current_chunk # <<>> THEN Append(chunks, current_chunk) ELSE chunks
    ELSE LET sentence == sentences[k]
             flush == /\ SumLen(current_chunk) + Len(sentence) > chunk_size
                      /\ current_chunk # <<>>
             kept == IF ~flush THEN current_chunk
                     ELSE IF chunk_overlap > 0
                          THEN OverlapSentences(current_chunk, Len(current_chunk),
                                                chunk_overlap, <<>>)
                          ELSE <<>>
         IN  DefaultPack(sentences, k + 1,
                         IF flush THEN Append(chunks, current_chunk) ELSE chunks,
                         Append(kept, sentence), chunk_size, chunk_overlap)

RECURSIVE JoinEach(_)
JoinEach(groups) ==
    IF groups = <<>> THEN <<>>
    ELSE <<JoinWith(groups[1], <<" ">>)>> \o JoinEach(Tail(groups))

\* _chunk_by_size; seen holds the values start has had, a repeated one means the
\* while loop never ends
RECURSIVE ChunkBySize(_, _, _, _, _, _)
ChunkBySize(text, start, chunks, seen, chunk_size, chunk_overlap) ==
    IF ~(start < Len(text)) THEN [chunks |-> chunks, diverges |-> FALSE]
    ELSE IF start \in seen THEN [chunks |-> chunks, diverges |-> TRUE]
    ELSE LET end0 == start + chunk_size
             break_pos == RFindChar(text, " ", start, end0)
             end == IF end0 < Len(text) /\ break_pos > start THEN break_pos ELSE end0
             next0 == end - chunk_overlap
             next == IF next0 <= 0 THEN end ELSE next0
         IN  ChunkBySize(text, next, Append(chunks, Strip(Slice(text, start, end))),
                         seen \cup {start}, chunk_size, chunk_overlap)

DefaultChunkText(text, chunk_size, chunk_overlap) ==
    IF text = <<>> THEN [chunks |-> <<>>, diverges |-> FALSE]
    ELSE IF DefaultSplitSentences(text) = <<>>
         THEN ChunkBySize(text, 0, <<>>, {}, chunk_size, chunk_overlap)
         ELSE [chunks |-> JoinEach(DefaultPack(DefaultSplitSentences(text), 1, <<>>, <<>>,
                                               chunk_size, chunk_overlap)),
               diverges |-> FALSE]

(***************************************************************************)
(* JapaneseChunker, without the morphological analyzer (_check_fugashi()   *)
(* is False: the analyzer is an optional external library).                *)
(***************************************************************************)
JapaneseCountTokens(text) == IF text = <<>> THEN 0 ELSE Len(text)

\* the loop of _split_sentences over the characters, a sentence at a time: from
\* is the offset at which the current sentence starts
RECURSIVE JapaneseSplit(_, _, _)
JapaneseSplit(text, from, sentences) ==
    LET endings == {i \in from..(Len(text) - 1) : text[i + 1] \in SENTENCE_ENDINGS}
        to == IF endings = {} THEN Len(text) ELSE MinOf(endings) + 1
        current == Slice(text, from, to)
        kept == IF Strip(current) # <<>> THEN Append(sentences, Strip(current))
                ELSE sentences
    IN  IF endings = {} THEN kept ELSE JapaneseSplit(text, to, kept)

JapaneseSplitSentences(text) ==
    IF text = <<>> THEN <<>> ELSE JapaneseSplit(text, 0, <<>>)

\* _find_phrase_boundary, the branch without the analyzer
FindPhraseBoundary(text, position, direction) ==
    LET marks == {i \in 0..(Len(text) - 1) :
                    text[i + 1] \in PHRASE_MARKERS \cup SENTENCE_ENDINGS}
        back == {i \in marks : i <= position - 1}
        forth == {i \in marks : i >= position}
    IN  IF direction = -1
        THEN IF back = {} THEN position ELSE MaxOf(back) + 1
        ELSE IF forth = {} THEN position ELSE MinOf(forth)

\* what chunk_text keeps of the flushed buffer for the next chunk
JapaneseOverlap(current_chunk, chunk_overlap) ==
    IF chunk_overlap > 0 /\ Len(current_chunk) > chunk_overlap
    THEN Slice(current_chunk,
               FindPhraseBoundary(current_chunk, Len(current_chunk) - chunk_overlap, 1),
               Len(current_chunk))
    ELSE <<>>

\* variant of the loop that flushes only a buffer that is already too long
RECURSIVE JapanesePackLate(_, _, _, _, _, _)
JapanesePackLate(sentences, k, chunks, current_chunk, chunk_size, chunk_overlap) ==
    IF k > Len(sentences)
    THEN IF Strip(current_chunk) # <<>> THEN Append(chunks, Strip(current_chunk))
         ELSE chunks
    ELSE LET sentence == sentences[k]
             flush == /\ Len(current_chunk) > chunk_size
                      /\ current_chunk # <<>>
             kept == IF flush THEN JapaneseOverlap(current_chunk, chunk_overlap)
                     ELSE current_chunk
         IN  JapanesePackLate(sentences, k + 1,
                              IF flush THEN Append(chunks, Strip(current_chunk)) ELSE chunks,
                              kept \o sentence, chunk_size, chunk_overlap)

RECURSIVE JapanesePack(_, _, _, _, _, _)
JapanesePack(sentences, k, chunks, current_chunk, chunk_size, chunk_overlap) ==
    IF k > Len(sentences)
    THEN IF Strip(current_chunk) # <<>> THEN Append(chunks, Strip(current_chunk))
         ELSE chunks
    ELSE LET sentence == sentences[k]
             flush == /\ Len(current_chunk) + Len(sentence) > chunk_size
                      /\ current_chunk # <<>>
             kept == IF flush THEN JapaneseOverlap(current_chunk, chunk_overlap)
                     ELSE current_chunk
         IN  JapanesePack(sentences, k + 1,
                          IF flush THEN Append(chunks, Strip(current_chunk)) ELSE chunks,
                          kept \o sentence, chunk_size, chunk_overlap)

\* _chunk_by_morphemes, the character fallback; seen as in ChunkBySize
RECURSIVE ChunkByMorphemes(_, _, _, _, _, _)
ChunkByMorphemes(text, start, chunks, seen, chunk_size, chunk_overlap) ==
    IF ~(start < Len(text)) THEN [chunks |-> chunks, diverges |-> FALSE]
    ELSE IF start \in seen THEN [chunks |-> chunks, diverges |-> TRUE]
    ELSE LET end == IF start + chunk_size < Len(text) THEN start + chunk_size
                    ELSE Len(text)
             next0 == end - chunk_overlap
             next == IF next0 <= 0 THEN end ELSE next0
         IN  ChunkByMorphemes(text, next, Append(chunks, Slice(text, start, end)),
                              seen \cup {start}, chunk_size, chunk_overlap)

JapaneseChunkText(text, chunk_size, chunk_overlap) ==
    IF text = <<>> THEN [chunks |-> <<>>, diverges |-> FALSE]
    ELSE IF JapaneseSplitSentences(text) = <<>>
         THEN ChunkByMorphemes(text, 0, <<>>, {}, chunk_size, chunk_overlap)
         ELSE [chunks |-> JapanesePack(JapaneseSplitSentences(text), 1, <<>>, <<>>,
                                       chunk_size, chunk_overlap),
               diverges |-> FALSE]

(***************************************************************************)
(* BaseChunker: a chunker is [kind, language, chunk_size, chunk_overlap].  *)
(***************************************************************************)
ChunkText(chunker, text) ==
    IF chunker.kind = "japanese"
    THEN JapaneseChunkText(text, chunker.chunk_size, chunker.chunk_overlap)
    ELSE DefaultChunkText(text, chunker.chunk_size, chunker.chunk_overlap)

CountTokens(chunker, text) ==
    IF chunker.kind = "japanese" THEN JapaneseCountTokens(text)
    ELSE DefaultCountTokens(text)

\* _combine_element_text before the final rstrip(): the text and the spans
RECURSIVE CombineRaw(_, _, _, _)
CombineRaw(elements, k, combined, positions) ==
    IF k > Len(elements) THEN [combined |-> combined, positions |-> positions]
    ELSE CombineRaw(elements, k + 1, combined \o elements[k].text \o SEPARATOR,
                    Append(positions,
                           [start |-> Len(combined),
                            end |-> Len(combined) + Len(elements[k].text),
                            id |-> elements[k].id]))

CombineElementText(elements) ==
    LET raw == CombineRaw(elements, 1, <<>>, <<>>)
    IN  [combined |-> RStrip(raw.combined), positions |-> raw.positions]

\* variant of _find_source_elements that takes the elements lying wholly in the
\* chunk
RECURSIVE FindSourceElementsInside(_, _, _)
FindSourceElementsInside(chunk_start, chunk_end, positions) ==
    IF positions = <<>> THEN <<>>
    ELSE (IF positions[1].start >= chunk_start /\ positions[1].end <= chunk_end
          THEN <<positions[1].id>> ELSE <<>>)
         \o FindSourceElementsInside(chunk_start, chunk_end, Tail(positions))

RECURSIVE FindSourceElements(_, _, _)
FindSourceElements(chunk_start, chunk_end, positions) ==
    IF positions = <<>> THEN <<>>
    ELSE (IF positions[1].start < chunk_end /\ positions[1].end > chunk_start
          THEN <<positions[1].id>> ELSE <<>>)
         \o FindSourceElements(chunk_start, chunk_end, Tail(positions))

\* variant of the loop that searches every chunk text from the start of the text
RECURSIVE LocateChunksFromStart(_, _, _, _, _, _, _, _)
LocateChunksFromStart(ch, doc, combined_text, positions, texts, idx, current_pos, acc) ==
    IF idx >= Len(texts) THEN acc
    ELSE LET chunk_text == texts[idx + 1]
             found == Find(combined_text, chunk_text, 0)
             start_char == IF found = -1 THEN 0 ELSE found
             end_char == start_char + Len(chunk_text)
         IN  LocateChunksFromStart(ch, doc, combined_text, positions, texts, idx + 1, 0,
                                   Append(acc,
                                          [id |-> <<doc, idx>>,
                                           text |-> chunk_text,
                                           language |-> ch.language,
                                           source_elements |->
                                               FindSourceElements(start_char, end_char,
                                                                  positions),
                                           document_id |-> doc,
                                           chunk_index |-> idx,
                                           start_char |-> start_char,
                                           end_char |-> end_char,
                                           token_count |-> CountTokens(ch, chunk_text)]))

\* the loop of chunk_elements over the chunk texts
RECURSIVE LocateChunks(_, _, _, _, _, _, _, _)
LocateChunks(ch, doc, combined_text, positions, texts, idx, current_pos, acc) ==
    IF idx >= Len(texts) THEN acc
    ELSE LET chunk_text == texts[idx + 1]
             found == Find(combined_text, chunk_text, current_pos)
             start_char == IF found = -1 THEN current_pos ELSE found
             end_char == start_char + Len(chunk_text)
         IN  LocateChunks(ch, doc, combined_text, positions, texts, idx + 1, start_char + 1,
                          Append(acc,
                                 [id |-> <<doc, idx>>,
                                  text |-> chunk_text,
                                  language |-> ch.language,
                                  source_elements |->
                                      FindSourceElements(start_char, end_char, positions),
                                  document_id |-> doc,
                                  chunk_index |-> idx,
                                  start_char |-> start_char,
                                  end_char |-> end_char,
                                  token_count |-> CountTokens(ch, chunk_text)]))

ChunkElements(ch, elems, doc) ==
    IF elems = <<>> THEN [chunks |-> <<>>, diverges |-> FALSE]
    ELSE LET ct == CombineElementText(elems)
             tc == ChunkText(ch, ct.combined)
         IN  [chunks |-> LocateChunks(ch, doc, ct.combined, ct.positions, tc.chunks,
                                      0, 0, <<>>),
              diverges |-> tc.diverges]

(***************************************************************************)
(* Floats that arise as quotients of small integers, kept as reduced       *)
(* fractions [num, den].                                                   *)
(***************************************************************************)
RECURSIVE Gcd(_, _)
Gcd(a, b) == IF b = 0 THEN a ELSE Gcd(b, a % b)

Frac(a, b) == [num |-> a \div Gcd(a, b), den |-> b \div Gcd(a, b)]
Zero == [num |-> 0, den |-> 1]
One == [num |-> 1, den |-> 1]
FracGE(x, y) == x.num * y.den >= y.num * x.den

(***************************************************************************)
(* CorrelationGraph (models.py)                                            *)
(***************************************************************************)
\* CorrelationGraph(document_id=..., nodes=..., node_count=...): the other fields
\* take their defaults
NewGraph(doc, nodes, node_count) ==
    [document_id |-> doc, nodes |-> nodes, edges |-> <<>>,
     node_count |-> node_count, edge_count |-> 0, density |-> Zero]

\* variant of _update_density that counts ordered pairs of nodes
UpdateDensityOrdered(g) ==
    IF g.node_count > 1
    THEN [g EXCEPT !.density = Frac(g.edge_count, g.node_count * (g.node_count - 1))]
    ELSE g

UpdateDensity(g) ==
    IF g.node_count > 1
    THEN LET max_edges == (g.node_count * (g.node_count - 1)) \div 2
         IN  [g EXCEPT !.density = IF max_edges > 0 THEN Frac(g.edge_count, max_edges)
                                   ELSE Zero]
    ELSE g

AddCorrelation(g, correlation) ==
    LET edges == Append(g.edges, correlation)
    IN  UpdateDensity([g EXCEPT !.edges = edges, !.edge_count = Len(edges)])

(***************************************************************************)
(* CorrelationBuilder (correlation.py); a builder is                       *)
(* [similarity_threshold, build_adjacent, build_semantic].                 *)
(***************************************************************************)
\* str.lower()
Lower(c) == IF c = "A" THEN "a" ELSE IF c = "B" THEN "b" ELSE c

\* set(text.lower().split())
WordSet(text) ==
    LET starts == {i \in Inked(text) : i = 0 \/ (i - 1) \notin Inked(text)}
        EndOf(i) == MinOf({j \in i..(Len(text) - 1) : (j + 1) \notin Inked(text)}) + 1
    IN  {[k \in 1..(EndOf(i) - i) |-> Lower(text[i + k])] : i \in starts}

\* intersection / union if union > 0 else 0
Jaccard(words_a, words_b) ==
    IF Cardinality(words_a \cup words_b) > 0
    THEN Frac(Cardinality(words_a \cap words_b), Cardinality(words_a \cup words_b))
    ELSE Zero

\* variant of the threshold test that wants the similarity to exceed the threshold
ExceedsThreshold(similarity, threshold) == ~FracGE(threshold, similarity)

\* similarity >= self.similarity_threshold
MeetsThreshold(similarity, threshold) == FracGE(similarity, threshold)

\* sorted(chunks, key=lambda c: c.chunk_index): a stable sort
RECURSIVE InsertByIndex(_, _)
InsertByIndex(sorted, c) ==
    IF sorted = <<>> THEN <<c>>
    ELSE IF sorted[Len(sorted)].chunk_index <= c.chunk_index THEN Append(sorted, c)
    ELSE Append(InsertByIndex(SubSeq(sorted, 1, Len(sorted) - 1), c), sorted[Len(sorted)])

RECURSIVE SortByIndex(_)
SortByIndex(cs) ==
    IF cs = <<>> THEN <<>>
    ELSE InsertByIndex(SortByIndex(SubSeq(cs, 1, Len(cs) - 1)), cs[Len(cs)])

AdjacentCorrelation(current, next_chunk) ==
    [source_chunk_id |-> current.id, target_chunk_id |-> next_chunk.id,
     correlation_type |-> "adjacent", weight |-> One,
     metadata |-> [distance |-> 1]]

RECURSIVE AddAdjacentFrom(_, _, _)
AddAdjacentFrom(g, sorted_chunks, i) ==
    IF i >= Len(sorted_chunks) THEN g
    ELSE AddAdjacentFrom(
             AddCorrelation(g, AdjacentCorrelation(sorted_chunks[i], sorted_chunks[i + 1])),
             sorted_chunks, i + 1)

\* variant of _add_adjacent_correlations that takes the chunks in list order
AddAdjacentUnsorted(g, cs) == AddAdjacentFrom(g, cs, 1)

\* _add_adjacent_correlations
AddAdjacentCorrelations(g, cs) == AddAdjacentFrom(g, SortByIndex(cs), 1)

Abs(x) == IF x < 0 THEN -x ELSE x

\* variant of the semantic edge that points from chunk_b to chunk_a
SemanticCorrelationBack(chunk_a, chunk_b, similarity) ==
    [source_chunk_id |-> chunk_b.id, target_chunk_id |-> chunk_a.id,
     correlation_type |-> "semantic", weight |-> similarity,
     metadata |-> [similarity_score |-> similarity]]

SemanticCorrelation(chunk_a, chunk_b, similarity) ==
    [source_chunk_id |-> chunk_a.id, target_chunk_id |-> chunk_b.id,
     correlation_type |-> "semantic", weight |-> similarity,
     metadata |-> [similarity_score |-> similarity]]

\* variant of the two loops that does not skip the pairs one chunk_index apart
RECURSIVE AddSemanticWithNeighbours(_, _, _, _, _)
AddSemanticWithNeighbours(g, cs, threshold, i, j) ==
    IF i > Len(cs) THEN g
    ELSE IF j > Len(cs) THEN AddSemanticWithNeighbours(g, cs, threshold, i + 1, 1)
    ELSE IF i >= j THEN AddSemanticWithNeighbours(g, cs, threshold, i, j + 1)
    ELSE LET similarity == Jaccard(WordSet(cs[i].text), WordSet(cs[j].text))
         IN  AddSemanticWithNeighbours(
                 IF MeetsThreshold(similarity, threshold)
                 THEN AddCorrelation(g, SemanticCorrelation(cs[i], cs[j], similarity))
                 ELSE g,
                 cs, threshold, i, j + 1)

\* _add_semantic_correlations: the two nested loops, i outer and j inner
RECURSIVE AddSemanticFrom(_, _, _, _, _)
AddSemanticFrom(g, cs, threshold, i, j) ==
    IF i > Len(cs) THEN g
    ELSE IF j > Len(cs) THEN AddSemanticFrom(g, cs, threshold, i + 1, 1)
    ELSE IF i >= j THEN AddSemanticFrom(g, cs, threshold, i, j + 1)
    ELSE IF Abs(cs[i].chunk_index - cs[j].chunk_index) <= 1
         THEN AddSemanticFrom(g, cs, threshold, i, j + 1)
    ELSE LET similarity == Jaccard(WordSet(cs[i].text), WordSet(cs[j].text))
         IN  AddSemanticFrom(
                 IF MeetsThreshold(similarity, threshold)
                 THEN AddCorrelation(g, SemanticCorrelation(cs[i], cs[j], similarity))
                 ELSE g,
                 cs, threshold, i, j + 1)

AddSemanticCorrelations(g, cs, threshold) == AddSemanticFrom(g, cs, threshold, 1, 1)

\* build_graph; the uuid4() of the empty graph is a document id no document has
BuildGraph(b, cs) ==
    IF cs = <<>> THEN NewGraph(<<"uuid4">>, <<>>, 0)
    ELSE LET g0 == NewGraph(cs[1].document_id, [k \in 1..Len(cs) |-> cs[k].id], Len(cs))
             g1 == IF b.build_adjacent THEN AddAdjacentCorrelations(g0, cs) ELSE g0
         IN  IF b.build_semantic
             THEN AddSemanticCorrelations(g1, cs, b.similarity_threshold)
             ELSE g1

(***************************************************************************)
(* ElementNormalizer (normalizer.py), as DocumentImporter constructs it:   *)
(* detect_language=True, default_language=UNKNOWN.  A raw element is       *)
(* [category, text, detected]; detected is what the external language      *)
(* detector answers for the text ("none" when it is not installed, "fail"  *)
(* when it raises LangDetectException).                                    *)
(***************************************************************************)
MIN_TEXT_LENGTH == 1
DETECT_MIN_LENGTH == 20

\* ELEMENT_TYPE_MAP.get(category, UNCATEGORIZED)
GetElementType(category) ==
    IF category \in {"Title", "NarrativeText", "ListItem", "Table", "Image", "Header",
                     "Footer", "PageBreak", "Formula"}
    THEN category
    ELSE IF category \in {"FigureCaption", "Address", "EmailAddress"} THEN "NarrativeText"
    ELSE IF category = "CodeSnippet" THEN "Code"
    ELSE "UncategorizedText"

\* _detect_language, then lang_map.get(lang_code, UNKNOWN)
DetectLanguage(raw) ==
    IF raw.text = <<>> \/ Len(raw.text) < DETECT_MIN_LENGTH THEN "unknown"
    ELSE IF raw.detected \in {"none", "fail"} THEN "unknown"
    ELSE IF raw.detected \in {"ja", "en", "ko"} THEN raw.detected
    ELSE IF raw.detected \in {"zh-cn", "zh-tw"} THEN "zh"
    ELSE "unknown"

\* normalize: the element, or nothing when it is skipped
Normalize(raw, position) ==
    IF Len(Strip(raw.text)) < MIN_TEXT_LENGTH THEN <<>>
    ELSE IF GetElementType(raw.category) = "PageBreak" /\ Strip(raw.text) = <<>> THEN <<>>
    ELSE <<[id |-> <<"element", position>>,
            element_type |-> GetElementType(raw.category),
            text |-> raw.text,
            language |-> DetectLanguage(raw),
            position |-> position,
            heading_level |-> IF GetElementType(raw.category) = "Title" THEN 1 ELSE 0]>>

RECURSIVE NormalizeFrom(_, _)
NormalizeFrom(raw_elements, position) ==
    IF position >= Len(raw_elements) THEN <<>>
    ELSE Normalize(raw_elements[position + 1], position)
         \o NormalizeFrom(raw_elements, position + 1)

NormalizeAll(raw_elements) == NormalizeFrom(raw_elements, 0)

\* lang_scores[language]: the text length of the elements of that language
RECURSIVE LangScore(_, _)
LangScore(elems, language) ==
    IF elems = <<>> THEN 0
    ELSE (IF elems[1].language = language THEN Len(elems[1].text) ELSE 0)
         + LangScore(Tail(elems), language)

\* detect_document_language: max() keeps the first of the best, in the order in
\* which the languages first occur
DetectDocumentLanguage(elems) ==
    LET known == {k \in 1..Len(elems) : elems[k].language # "unknown"}
        best == {k \in known :
                    \A j \in known :
                        LangScore(elems, elems[j].language)
                            <= LangScore(elems, elems[k].language)}
    IN  IF known = {} THEN "unknown" ELSE elems[MinOf(best)].language

(***************************************************************************)
(* DocumentParser (parser.py): what parse() answers for a path.  The       *)
(* partition itself is external: its answer is an input, either raw        *)
(* elements or a failure.                                                  *)
(***************************************************************************)
SUPPORTED_FORMATS == {".pdf", ".docx", ".pptx", ".html", ".htm", ".md", ".txt"}

ParseOk(raw_elements) == [ok |-> TRUE, elements |-> raw_elements, error |-> "none"]
ParseError(error) == [ok |-> FALSE, elements |-> <<>>, error |-> error]

\* variant of parse() without the check of the extension
ParseAnyFormat(file, partition) ==
    IF ~file.exists THEN ParseError("FileNotFoundError") ELSE partition

Parse(file, partition) ==
    IF ~file.exists THEN ParseError("FileNotFoundError")
    ELSE IF file.suffix \notin SUPPORTED_FORMATS THEN ParseError("UnsupportedFormatError")
    ELSE partition

(***************************************************************************)
(* DocumentImporter (importer.py).  A call of import_document is           *)
(* [status, path, found, cfg, result, error, stages, chunker]: status is   *)
(* "free" before the call, "parsing" while it awaits the parser, then      *)
(* "returned" or "raised"; found is whether the path existed when the call *)
(* began, error the exception the call met, stages the pipeline stages     *)
(* entered, chunker the chunker object _get_chunker returned to the call.  *)
(***************************************************************************)
NoConfig == [chunk_size |-> 0, chunk_overlap |-> 0, auto_detect_language |-> FALSE,
             default_language |-> "unknown", build_correlation_graph |-> FALSE,
             semantic_similarity_threshold |-> Zero]

\* ImportResult(id=uuid4(), document_metadata=...): the other fields take their defaults
NewResult(id, path) ==
    [id |-> id, status |-> "success", source_path |-> path, language |-> "unknown",
     elements |-> <<>>, element_count |-> 0, chunks |-> <<>>, chunk_count |-> 0,
     correlation_graph |-> <<>>, total_tokens |-> 0, errors |-> <<>>]

NoResult == NewResult(<<"none">>, "none")

FreeCall ==
    [status |-> "free", path |-> "none", found |-> FALSE, cfg |-> NoConfig,
     result |-> NoResult, error |-> "none", stages |-> <<>>, chunker |-> <<"none">>]

\* get_chunker
GetChunkerFor(language, chunk_size, chunk_overlap) ==
    [kind |-> IF language = "ja" THEN "japanese" ELSE "default",
     language |-> language, chunk_size |-> chunk_size, chunk_overlap |-> chunk_overlap]

\* variant of _get_chunker that makes a chunker at every request
GetChunkerAlwaysNew(cache, config, language, maker) ==
    (language :> ([instance |-> maker]
                  @@ GetChunkerFor(language, config.chunk_size, config.chunk_overlap)))
        @@ cache

\* variant of _get_chunker whose cache holds one chunker, the last one made
GetChunkerOneSlot(cache, config, language, maker) ==
    IF language \in DOMAIN cache THEN cache
    ELSE language :> ([instance |-> maker]
                      @@ GetChunkerFor(language, config.chunk_size, config.chunk_overlap))

\* _get_chunker: the cache after the request; instance tells the chunker objects
\* apart, by the request that made them
GetChunker(cache, config, language, maker) ==
    IF language \in DOMAIN cache THEN cache
    ELSE (language :> ([instance |-> maker]
                       @@ GetChunkerFor(language, config.chunk_size, config.chunk_overlap)))
         @@ cache

RECURSIVE SumTokens(_)
SumTokens(cs) == IF cs = <<>> THEN 0 ELSE cs[1].token_count + SumTokens(Tail(cs))

\* the start of import_document, up to the await of the parser: cfg is
\* config or self.config, and file_path.stat() raises for a missing file
BeginImport(id, path, file, cfg) ==
    IF ~file.exists
    THEN [FreeCall EXCEPT !.status = "raised", !.path = path, !.cfg = cfg,
                          !.error = "FileNotFoundError"]
    ELSE [FreeCall EXCEPT !.status = "parsing", !.path = path, !.found = TRUE,
                          !.cfg = cfg, !.result = NewResult(id, path), !.stages = <<"parse">>]

\* variant of the except clause that catches the parser's own errors only
CaptureParserErrorsOnly(call, error) ==
    IF error \in {"DocumentParseError", "UnsupportedFormatError"}
    THEN [call EXCEPT !.status = "returned", !.error = error,
                      !.result.status = "error",
                      !.result.errors = Append(@, error)]
    ELSE [call EXCEPT !.status = "raised", !.error = error]

\* variant of the except clause that records the error and leaves the status
CaptureWithoutStatus(call, error) ==
    [call EXCEPT !.status = "returned", !.error = error,
                 !.result.errors = Append(@, error)]

\* except Exception as e: status = "error", errors.append(str(e)); then return
Capture(call, error) ==
    [call EXCEPT !.status = "returned", !.error = error,
                 !.result.status = "error",
                 !.result.errors = Append(@, error)]

\* import_document from the parser's answer on; fault is the stage in which the
\* run meets an internal exception ("none": no stage); the result is the call
\* and the chunker cache
ResumeImport(call, parsed, fault, cache, config) ==
    LET cfg == call.cfg
        c1 == [call EXCEPT !.stages = Append(@, "normalize")]
        elems == NormalizeAll(parsed.elements)
        c2 == [c1 EXCEPT !.result.elements = elems,
                         !.result.element_count = Len(elems),
                         !.stages = Append(@, "detect")]
        detected == DetectDocumentLanguage(elems)
        language == IF cfg.auto_detect_language THEN detected ELSE cfg.default_language
        c3 == [c2 EXCEPT !.result.language = language, !.stages = Append(@, "chunk")]
        cache1 == GetChunker(cache, config, language, call.result.id)
        c3a == [c3 EXCEPT !.chunker = cache1[language].instance]
        chunked == ChunkElements(cache1[language], elems, call.result.id)
        c4 == [c3a EXCEPT !.result.chunks = chunked.chunks,
                         !.result.chunk_count = Len(chunked.chunks),
                         !.result.total_tokens = SumTokens(chunked.chunks)]
        c5 == [c4 EXCEPT !.stages = Append(@, "correlate")]
        built == BuildGraph([similarity_threshold |-> cfg.semantic_similarity_threshold,
                             build_adjacent |-> TRUE, build_semantic |-> TRUE],
                            chunked.chunks)
        c6 == [c5 EXCEPT !.result.correlation_graph = <<built>>]
    IN  IF ~parsed.ok THEN [call |-> Capture(call, parsed.error), cache |-> cache]
        ELSE IF fault = "normalize"
             THEN [call |-> Capture(c1, "NormalizeError"), cache |-> cache]
        ELSE IF fault = "chunk"
             THEN [call |-> Capture(c3a, "ChunkError"), cache |-> cache1]
        ELSE IF chunked.diverges
             THEN [call |-> [c3a EXCEPT !.status = "hung"], cache |-> cache1]
        ELSE IF ~cfg.build_correlation_graph
             THEN [call |-> [c4 EXCEPT !.status = "returned"], cache |-> cache1]
        ELSE IF fault = "correlate"
             THEN [call |-> Capture(c5, "CorrelateError"), cache |-> cache1]
        ELSE [call |-> [c6 EXCEPT !.status = "returned"], cache |-> cache1]

(***************************************************************************)
(* SearchCache (handlers/cache.py).  A cache is [max_size, default_ttl,    *)
(* entries, stats]; entries is the dict _cache as the sequence of its      *)
(* items in insertion order, each [key, value, created_at, expires_at,     *)
(* hits].  Time is counted in whole units; "None" is Python's None.        *)
(***************************************************************************)
NewCacheStats == [hits |-> 0, misses |-> 0, evictions |-> 0, size |-> 0]

\* SearchCache(max_size=..., default_ttl=...)
NewSearchCache(max_size, default_ttl) ==
    [max_size |-> max_size, default_ttl |-> default_ttl, entries |-> <<>>,
     stats |-> NewCacheStats]

CacheKeys(c) == {c.entries[k].key : k \in 1..Len(c.entries)}

\* the position of key in the dict, 0 when it is not a key
IndexOfKey(entries, key) ==
    IF \E k \in 1..Len(entries) : entries[k].key = key
    THEN CHOOSE k \in 1..Len(entries) : entries[k].key = key
    ELSE 0

\* del d[key] for the item at position k
RemoveAt(entries, k) == SubSeq(entries, 1, k - 1) \o SubSeq(entries, k + 1, Len(entries))

\* CacheEntry.is_expired: time.time() > self.expires_at
IsExpired(entry, time) == time > entry.expires_at

\* SearchCache.get: the cache afterwards and the value returned
CacheGet(c, key, time) ==
    LET k == IndexOfKey(c.entries, key)
    IN  IF k = 0
        THEN [cache |-> [c EXCEPT !.stats.misses = @ + 1], returned |-> "None"]
        ELSE IF IsExpired(c.entries[k], time)
             THEN [cache |-> [c EXCEPT !.entries = RemoveAt(@, k),
                                       !.stats.misses = @ + 1,
                                       !.stats.evictions = @ + 1],
                   returned |-> "None"]
             ELSE [cache |-> [c EXCEPT !.entries[k].hits = @ + 1,
                                       !.stats.hits = @ + 1],
                   returned |-> c.entries[k].value]

\* min(self._cache.keys(), key=created_at): the first of the oldest
OldestIndex(entries) ==
    MinOf({k \in 1..Len(entries) :
              \A j \in 1..Len(entries) : entries[k].created_at <= entries[j].created_at})

\* variant of _evict_oldest that removes the entry made last
EvictNewest(c) ==
    IF c.entries = <<>> THEN c
    ELSE LET newest ==
                 MaxOf({k \in 1..Len(c.entries) :
                           \A j \in 1..Len(c.entries) :
                               c.entries[k].created_at >= c.entries[j].created_at})
         IN  [c EXCEPT !.entries = RemoveAt(@, newest),
                       !.stats.evictions = @ + 1,
                       !.stats.size = Len(c.entries) - 1]

\* SearchCache._evict_oldest
EvictOldest(c) ==
    IF c.entries = <<>> THEN c
    ELSE [c EXCEPT !.entries = RemoveAt(@, OldestIndex(c.entries)),
                   !.stats.evictions = @ + 1,
                   !.stats.size = Len(c.entries) - 1]

\* while len(self._cache) >= self.max_size: await self._evict_oldest(); the loop
\* never ends when nothing is left to evict
RECURSIVE EvictWhileFull(_)
EvictWhileFull(c) ==
    IF Len(c.entries) >= c.max_size
    THEN IF c.entries = <<>> THEN [cache |-> c, diverges |-> TRUE]
         ELSE EvictWhileFull(EvictOldest(c))
    ELSE [cache |-> c, diverges |-> FALSE]

\* self._cache[key] = entry: an existing key keeps its place in the dict
PutEntry(entries, entry) ==
    IF IndexOfKey(entries, entry.key) = 0 THEN Append(entries, entry)
    ELSE [entries EXCEPT ![IndexOfKey(entries, entry.key)] = entry]

\* SearchCache.set; ttl is 0 for None, and (ttl or default_ttl) takes the default
\* for both
CacheSet(c, key, value, ttl, time) ==
    LET room == EvictWhileFull(c)
        entry == [key |-> key, value |-> value, created_at |-> time,
                  expires_at |-> time + (IF ttl = 0 THEN c.default_ttl ELSE ttl),
                  hits |-> 0]
        entries == PutEntry(room.cache.entries, entry)
    IN  IF room.diverges THEN room
        ELSE [cache |-> [room.cache EXCEPT !.entries = entries,
                                           !.stats.size = Len(entries)],
              diverges |-> FALSE]

\* SearchCache.delete: the cache afterwards and the value returned
CacheDelete(c, key) ==
    LET k == IndexOfKey(c.entries, key)
    IN  IF k # 0
        THEN [cache |-> [c EXCEPT !.entries = RemoveAt(@, k),
                                  !.stats.size = Len(c.entries) - 1],
              returned |-> "True"]
        ELSE [cache |-> c, returned |-> "False"]

\* SearchCache.clear
CacheClear(c) == [c EXCEPT !.entries = <<>>, !.stats.size = 0]

\* SearchCache._cleanup_expired
CleanupExpired(c, time) ==
    LET Fresh(entry) == ~IsExpired(entry, time)
        kept == SelectSeq(c.entries, Fresh)
    IN  IF Len(kept) = Len(c.entries) THEN c
        ELSE [c EXCEPT !.entries = kept,
                       !.stats.evictions = @ + (Len(c.entries) - Len(kept)),
                       !.stats.size = Len(kept)]

(***************************************************************************)
(* State.                                                                  *)
(***************************************************************************)
VARIABLES
    chunker,        \* the chunker under test
    elements,       \* the elements given to chunk_elements
    document_id,    \* the document id given to chunk_elements
    text,           \* the text given to chunk_text
    chunks,         \* what chunk_elements returned
    text_chunks,    \* what chunk_text returned
    pc,             \* "ready", then "chunked" | "texted" | "hung"
    builder,        \* the CorrelationBuilder under test
    gchunks,        \* the chunks given to build_graph
    graph,          \* the CorrelationGraph built or being added to
    gpc,            \* "ready", then "built"; "created" for a graph made directly
    fs,             \* the file system: for each path, whether the file exists
    config,         \* DocumentImporter.config
    chunkers,       \* DocumentImporter._chunkers, the chunker cache by language
    calls,          \* the calls of import_document
    dir,            \* the call of import_directory
    made,           \* the outcome of constructing an ImportConfig
    cache,          \* the SearchCache
    now,            \* time.time()
    tasks,          \* the calls of cached_search
    lock            \* SearchCache._lock: "free", or "held" by an operation

chunkVars == <<chunker, elements, document_id, text, chunks, text_chunks, pc>>
graphVars == <<builder, gchunks, graph, gpc>>
importVars == <<fs, config, chunkers, calls, dir>>
configVars == <<made>>
cacheVars == <<cache, now, tasks, lock>>
vars == <<chunkVars, graphVars, importVars, configVars, cacheVars>>

\* the chunker part of the state, when a specification does not use it
IdleChunk ==
    /\ chunker = [kind |-> "default", language |-> "en", chunk_size |-> 1,
                  chunk_overlap |-> 0]
    /\ elements = <<>>
    /\ document_id = "doc1"
    /\ text = <<>>
    /\ chunks = <<>>
    /\ text_chunks = <<>>
    /\ pc = "idle"

\* the graph part of the state, when a specification does not use it
IdleGraph ==
    /\ builder = [similarity_threshold |-> Frac(7, 10), build_adjacent |-> TRUE,
                  build_semantic |-> TRUE]
    /\ gchunks = <<>>
    /\ graph = NewGraph("doc1", <<>>, 0)
    /\ gpc = "idle"

Paths == 1..MaxFiles
CallIds == {"c1", "c2"}

\* ImportConfig(chunk_size=100, chunk_overlap=10): the other fields at their defaults
ImporterConfig ==
    [chunk_size |-> 100, chunk_overlap |-> 10, auto_detect_language |-> TRUE,
     default_language |-> "en", build_correlation_graph |-> TRUE,
     semantic_similarity_threshold |-> Frac(7, 10)]

\* import_directory before it is called
IdleDirectory ==
    [status |-> "idle", extensions |-> {}, cfg |-> NoConfig, files |-> <<>>, next |-> 1,
     current |-> FreeCall, skipped |-> <<>>, results |-> <<>>]

\* the importer part of the state, when a specification does not use it
IdleImport ==
    /\ fs = [p \in Paths |-> TRUE]
    /\ config = ImporterConfig
    /\ chunkers = <<>>
    /\ calls = [c \in CallIds |-> FreeCall]
    /\ dir = IdleDirectory

\* no ImportConfig has been constructed
IdleConfig == made = [status |-> "none", chunk_size |-> 0, chunk_overlap |-> 0]

\* SearchCache(), unused, and no call of cached_search
IdleCache ==
    /\ cache = [max_size |-> 100, default_ttl |-> 300, entries |-> <<>>,
                stats |-> [hits |-> 0, misses |-> 0, evictions |-> 0, size |-> 0]]
    /\ now = 0
    /\ tasks = <<>>
    /\ lock = "free"

(***************************************************************************)
(* Inputs of the chunkers.                                                 *)
(***************************************************************************)
Chunkers ==
    {[kind |-> k, language |-> IF k = "japanese" THEN "ja" ELSE "en",
      chunk_size |-> cs, chunk_overlap |-> ov] :
        k \in Kinds, cs \in 1..MaxChunkSize, ov \in 0..(MaxChunkSize - 1)}

Texts(kind) == UNION {[1..n -> InputChars(kind)] : n \in 0..MaxText}

\* the pieces of s between the cut offsets
RECURSIVE Pieces(_, _, _)
Pieces(s, from, cuts) ==
    IF cuts = {} THEN <<Slice(s, from, Len(s))>>
    ELSE <<Slice(s, from, MinOf(cuts))>> \o Pieces(s, MinOf(cuts), cuts \ {MinOf(cuts)})

MakeElements(pieces) == [k \in 1..Len(pieces) |-> [id |-> k, text |-> pieces[k]]]

\* element lists as the normalizer hands them on: no element is blank
ElementLists(kind) ==
    {<<>>} \cup
    {MakeElements(Pieces(s, 0, cuts)) :
        <<s, cuts>> \in {p \in Texts(kind) \X SUBSET (1..(MaxText - 1)) :
                            /\ p[1] # <<>>
                            /\ Cardinality(p[2]) < MaxElems
                            /\ \A c \in p[2] : c < Len(p[1])
                            /\ \A k \in 1..(Cardinality(p[2]) + 1) :
                                   Strip(Pieces(p[1], 0, p[2])[k]) # <<>>}}

InitChunk ==
    /\ chunker \in {c \in Chunkers : c.chunk_overlap < c.chunk_size}
    /\ document_id \in {"doc1", "doc2"}
    /\ \/ elements \in ElementLists(chunker.kind) /\ text = <<>>
       \/ elements = <<>> /\ text \in Texts(chunker.kind)
    /\ chunks = <<>>
    /\ text_chunks = <<>>
    /\ pc = "ready"
    /\ IdleGraph
    /\ IdleImport
    /\ IdleConfig
    /\ IdleCache

\* await chunker.chunk_elements(elements, document_id)
CallChunkElements ==
    /\ pc = "ready"
    /\ text = <<>>
    /\ LET r == ChunkElements(chunker, elements, document_id)
       IN  /\ chunks' = r.chunks
           /\ pc' = IF r.diverges THEN "hung" ELSE "chunked"
    /\ UNCHANGED <<chunker, elements, document_id, text, text_chunks, graphVars,
                   importVars, configVars, cacheVars>>

\* chunker.chunk_text(text)
CallChunkText ==
    /\ pc = "ready"
    /\ elements = <<>>
    /\ LET r == ChunkText(chunker, text)
       IN  /\ text_chunks' = r.chunks
           /\ pc' = IF r.diverges THEN "hung" ELSE "texted"
    /\ UNCHANGED <<chunker, elements, document_id, text, chunks, graphVars,
                   importVars, configVars, cacheVars>>

NextChunk == CallChunkElements \/ CallChunkText

SpecChunk == InitChunk /\ [][NextChunk]_vars

(***************************************************************************)
(* chunk_text of the DefaultChunker on texts of several sentences.         *)
(***************************************************************************)
SentenceForms == {<<".">>, <<"a", ".">>, <<"a", "a", ".">>}

\* texts of one to MaxSentences sentences, a space between them
SentenceTexts ==
    {JoinWith(s, <<" ">>) : s \in UNION {[1..n -> SentenceForms] : n \in 1..MaxSentences}}

\* DefaultChunker(chunk_size, chunk_overlap), the overlap below the size
SentenceChunkers ==
    {[kind |-> "default", language |-> "en", chunk_size |-> cs, chunk_overlap |-> ov] :
        cs \in 1..(MaxChunkSize + 2), ov \in 0..(MaxChunkSize + 1)}

\* Japanese sentences, one with a phrase marker in it
JapaneseSentenceForms == {<<"K">>, <<"a", "K">>, <<"a", "T", "a", "K">>}

\* texts of one to MaxSentences Japanese sentences, nothing between them
JapaneseSentenceTexts ==
    {JoinWith(s, <<>>) :
        s \in UNION {[1..n -> JapaneseSentenceForms] : n \in 1..MaxSentences}}

\* JapaneseChunker(chunk_size, chunk_overlap), the overlap below the size
JapaneseSentenceChunkers ==
    {[kind |-> "japanese", language |-> "ja", chunk_size |-> cs, chunk_overlap |-> ov] :
        cs \in 1..(MaxChunkSize + 2), ov \in 0..(MaxChunkSize + 1)}

InitSentences ==
    /\ \/ /\ chunker \in {c \in SentenceChunkers : c.chunk_overlap < c.chunk_size}
          /\ text \in SentenceTexts
       \/ /\ chunker \in {c \in JapaneseSentenceChunkers : c.chunk_overlap < c.chunk_size}
          /\ text \in JapaneseSentenceTexts
    /\ document_id = "doc1"
    /\ elements = <<>>
    /\ chunks = <<>>
    /\ text_chunks = <<>>
    /\ pc = "ready"
    /\ IdleGraph
    /\ IdleImport
    /\ IdleConfig
    /\ IdleCache

SpecSentences == InitSentences /\ [][CallChunkText]_vars

(***************************************************************************)
(* build_graph on chunk lists, and add_correlation on a graph.             *)
(***************************************************************************)
SampleTexts == {<<"a", " ", "b">>, <<"B", " ", " ", "A">>, <<"a">>, <<>>}
Thresholds == {Zero, Frac(1, 2), Frac(7, 10), One}
Builders == [similarity_threshold : Thresholds, build_adjacent : BOOLEAN,
             build_semantic : BOOLEAN]

ChunkId(k) == <<"chunk", k>>

\* chunk lists in any order: distinct chunk_index values, consecutive or with gaps
ChunkLists ==
    UNION {{[k \in 1..n |->
                [id |-> ChunkId(k), text |-> texts[k], document_id |-> "doc1",
                 chunk_index |-> (perm[k] - 1) * stride]] :
              texts \in [1..n -> SampleTexts], perm \in Permutations(1..n),
              stride \in {1, 2}} : n \in 0..MaxChunks}

InitGraph ==
    /\ IdleChunk
    /\ builder \in Builders
    /\ gchunks \in ChunkLists
    /\ graph = NewGraph("doc1", <<>>, 0)
    /\ gpc = "ready"
    /\ IdleImport
    /\ IdleConfig
    /\ IdleCache

\* await builder.build_graph(chunks)
CallBuildGraph ==
    /\ gpc = "ready"
    /\ graph' = BuildGraph(builder, gchunks)
    /\ gpc' = "built"
    /\ UNCHANGED <<chunkVars, builder, gchunks, importVars, configVars, cacheVars>>

NextGraph == CallBuildGraph

SpecGraph == InitGraph /\ [][NextGraph]_vars

SampleCorrelations ==
    {AdjacentCorrelation([id |-> ChunkId(1)], [id |-> ChunkId(2)]),
     AdjacentCorrelation([id |-> ChunkId(2)], [id |-> ChunkId(1)]),
     AdjacentCorrelation([id |-> ChunkId(2)], [id |-> ChunkId(3)])}

\* CorrelationGraph(document_id=..., nodes=..., node_count=n), no edges yet
InitModels ==
    /\ IdleChunk
    /\ builder = [similarity_threshold |-> Frac(7, 10), build_adjacent |-> TRUE,
                  build_semantic |-> TRUE]
    /\ gchunks = <<>>
    /\ \E n \in 0..MaxChunks : graph = NewGraph("doc1", [k \in 1..n |-> ChunkId(k)], n)
    /\ gpc = "created"
    /\ IdleImport
    /\ IdleConfig
    /\ IdleCache

\* graph.add_correlation(correlation)
CallAddCorrelation ==
    /\ gpc = "created"
    /\ Len(graph.edges) < MaxEdges
    /\ \E c \in SampleCorrelations : graph' = AddCorrelation(graph, c)
    /\ UNCHANGED <<chunkVars, builder, gchunks, gpc, importVars, configVars, cacheVars>>

NextModels == CallAddCorrelation

SpecModels == InitModels /\ [][NextModels]_vars

(***************************************************************************)
(* import_document and import_directory over a small file system.          *)
(***************************************************************************)
\* the extension of each path: supported ones and an unsupported one
Suffix(p) == IF p % 3 = 1 THEN ".txt" ELSE IF p % 3 = 2 THEN ".xyz" ELSE ".md"

File(p) == [exists |-> fs[p], suffix |-> Suffix(p)]

Repeat(c, n) == [k \in 1..n |-> c]

\* what the partition of a supported file can answer
RawDocs ==
    {<<>>,
     <<[category |-> "PageBreak", text |-> <<" ">>, detected |-> "none"]>>,
     <<[category |-> "Title", text |-> <<"a", ".">>, detected |-> "en"]>>,
     <<[category |-> "NarrativeText", text |-> Repeat("a", 19) \o <<"K">>,
        detected |-> "ja"]>>,
     <<[category |-> "NarrativeText", text |-> Repeat("a", 59) \o <<"K", ".">>,
        detected |-> "en"],
       [category |-> "ListItem", text |-> Repeat("a", 59) \o <<"K", ".">>,
        detected |-> "fail"]>>}

PartitionAnswers ==
    {ParseOk(d) : d \in RawDocs}
        \cup {ParseError("DocumentParseError"), ParseError("ImportError")}

Faults == {"none", "normalize", "chunk", "correlate"}

\* ImportConfig(chunk_size=200, chunk_overlap=0, auto_detect_language=False,
\* default_language=JAPANESE, build_correlation_graph=False)
OverrideConfig ==
    [chunk_size |-> 200, chunk_overlap |-> 0, auto_detect_language |-> FALSE,
     default_language |-> "ja", build_correlation_graph |-> FALSE,
     semantic_similarity_threshold |-> Frac(7, 10)]

\* the config argument: None, or an override
ConfigArguments == {NoConfig, OverrideConfig}

\* cfg = config or self.config
EffectiveConfig(argument) == IF argument = NoConfig THEN config ELSE argument

InitImport ==
    /\ IdleChunk
    /\ IdleGraph
    /\ fs = [p \in Paths |-> TRUE]
    /\ config = ImporterConfig
    /\ chunkers = <<>>
    /\ calls = [c \in CallIds |-> FreeCall]
    /\ dir = IdleDirectory
    /\ IdleConfig
    /\ IdleCache

\* a file is removed by another process
FileVanishes ==
    /\ \E p \in Paths :
           /\ fs[p]
           /\ fs' = [fs EXCEPT ![p] = FALSE]
    /\ UNCHANGED <<chunkVars, graphVars, config, chunkers, calls, dir,
                   configVars, cacheVars>>

\* await importer.import_document(path, config=argument), up to the parser;
\* the calls are named in the order in which they begin
StartImport ==
    /\ \E c \in CallIds, p \in Paths, argument \in ConfigArguments :
           /\ calls[c].status = "free"
           /\ c = "c2" => calls["c1"].status # "free"
           /\ calls' = [calls EXCEPT
                            ![c] = BeginImport(<<"doc", c>>, p, File(p),
                                               EffectiveConfig(argument))]
    /\ UNCHANGED <<chunkVars, graphVars, fs, config, chunkers, dir,
                   configVars, cacheVars>>

\* import_document from the parser's answer to its return
FinishImport ==
    /\ \E c \in CallIds, partition \in PartitionAnswers, fault \in Faults :
           /\ calls[c].status = "parsing"
           /\ LET r == ResumeImport(calls[c], Parse(File(calls[c].path), partition),
                                    fault, chunkers, config)
              IN  /\ calls' = [calls EXCEPT ![c] = r.call]
                  /\ chunkers' = r.cache
    /\ UNCHANGED <<chunkVars, graphVars, fs, config, dir,
                   configVars, cacheVars>>

NextImport == FileVanishes \/ StartImport \/ FinishImport

SpecImport == InitImport /\ [][NextImport]_vars

\* the extensions argument: None (empty), or a list
ExtensionArguments == {{}, {".txt"}, {".txt", ".xyz"}}

\* directory.glob(pattern) filtered: the matching files, in the order of the glob
RECURSIVE Enumerations(_)
Enumerations(S) ==
    IF S = {} THEN {<<>>}
    ELSE UNION {{<<p>> \o rest : rest \in Enumerations(S \ {p})} : p \in S}

MatchingFiles(extensions) ==
    LET allowed_exts == IF extensions # {} THEN extensions ELSE SUPPORTED_FORMATS
    IN  {p \in Paths : fs[p] /\ Suffix(p) \in allowed_exts}

InitDirectory ==
    /\ IdleChunk
    /\ IdleGraph
    /\ fs = [p \in Paths |-> TRUE]
    /\ config = ImporterConfig
    /\ chunkers = <<>>
    /\ calls = [c \in CallIds |-> FreeCall]
    /\ dir = IdleDirectory
    /\ IdleConfig
    /\ IdleCache

\* await importer.import_directory(directory, extensions=..., config=...), up to
\* the loop over the files
StartDirectory ==
    /\ dir.status = "idle"
    /\ \E extensions \in ExtensionArguments, argument \in ConfigArguments :
           \E files \in Enumerations(MatchingFiles(extensions)) :
               dir' = [dir EXCEPT !.status = "running", !.extensions = extensions,
                                  !.cfg = argument, !.files = files]
    /\ UNCHANGED <<chunkVars, graphVars, fs, config, chunkers, calls,
                   configVars, cacheVars>>

\* variant of the except clause of the loop that leaves the loop
SkipAndStop(d, call) ==
    [d EXCEPT !.skipped = Append(@, call.path), !.next = Len(d.files) + 1,
              !.current = FreeCall]

\* except Exception: continue
Skip(d, call) ==
    [d EXCEPT !.skipped = Append(@, call.path), !.next = @ + 1, !.current = FreeCall]

\* results.append(result)
Collect(d, call) ==
    [d EXCEPT !.results = Append(@, call.result), !.next = @ + 1, !.current = FreeCall]

\* what the loop does with a call of import_document that has ended
AfterCall(d, call) ==
    IF call.status = "raised" THEN Skip(d, call)
    ELSE IF call.status = "returned" THEN Collect(d, call)
    ELSE [d EXCEPT !.status = "hung", !.current = call]

\* the loop reaches a file: import_document runs up to the parser
DirectoryStartFile ==
    /\ dir.status = "running"
    /\ dir.current.status = "free"
    /\ dir.next <= Len(dir.files)
    /\ LET p == dir.files[dir.next]
           call == BeginImport(<<"doc", dir.next>>, p, File(p), EffectiveConfig(dir.cfg))
       IN  dir' = IF call.status = "raised" THEN AfterCall(dir, call)
                  ELSE [dir EXCEPT !.current = call]
    /\ UNCHANGED <<chunkVars, graphVars, fs, config, chunkers, calls,
                   configVars, cacheVars>>

\* the parser answers: import_document ends, and the loop takes its outcome
DirectoryFinishFile ==
    /\ dir.status = "running"
    /\ dir.current.status = "parsing"
    /\ \E partition \in PartitionAnswers, fault \in Faults :
           LET r == ResumeImport(dir.current,
                                 Parse(File(dir.current.path), partition),
                                 fault, chunkers, config)
           IN  /\ dir' = AfterCall(dir, r.call)
               /\ chunkers' = r.cache
    /\ UNCHANGED <<chunkVars, graphVars, fs, config, calls,
                   configVars, cacheVars>>

\* return results
DirectoryReturn ==
    /\ dir.status = "running"
    /\ dir.current.status = "free"
    /\ dir.next > Len(dir.files)
    /\ dir' = [dir EXCEPT !.status = "returned"]
    /\ UNCHANGED <<chunkVars, graphVars, fs, config, chunkers, calls,
                   configVars, cacheVars>>

NextDirectory ==
    FileVanishes \/ StartDirectory \/ DirectoryStartFile \/ DirectoryFinishFile
        \/ DirectoryReturn

SpecDirectory == InitDirectory /\ [][NextDirectory]_vars

(***************************************************************************)
(* Construction of an ImportConfig (models.py): the Field constraints.     *)
(***************************************************************************)
MIN_CHUNK_SIZE == 100
MAX_CHUNK_SIZE == 10000
DEFAULT_CHUNK_SIZE == 1000
DEFAULT_CHUNK_OVERLAP == 100

\* chunk_size: Field(ge=100, le=10000); chunk_overlap: Field(ge=0)
ImportConfigAccepts(chunk_size, chunk_overlap) ==
    /\ chunk_size >= MIN_CHUNK_SIZE
    /\ chunk_size <= MAX_CHUNK_SIZE
    /\ chunk_overlap >= 0

Spread == (0 - MaxSpread)..MaxSpread

\* the values tried: around the limits, and the defaults
ChunkSizes ==
    {MIN_CHUNK_SIZE + d : d \in Spread} \cup {MAX_CHUNK_SIZE + d : d \in Spread}
        \cup {DEFAULT_CHUNK_SIZE}

ChunkOverlaps ==
    {d : d \in Spread} \cup {MIN_CHUNK_SIZE + d : d \in Spread}
        \cup {MAX_CHUNK_SIZE + d : d \in Spread} \cup {DEFAULT_CHUNK_OVERLAP}

InitConfig ==
    /\ IdleChunk
    /\ IdleGraph
    /\ IdleImport
    /\ IdleConfig
    /\ IdleCache

\* ImportConfig(chunk_size=..., chunk_overlap=...)
ConstructImportConfig ==
    /\ \E chunk_size \in ChunkSizes, chunk_overlap \in ChunkOverlaps :
           made' = [status |-> IF ImportConfigAccepts(chunk_size, chunk_overlap)
                               THEN "constructed" ELSE "rejected",
                    chunk_size |-> chunk_size, chunk_overlap |-> chunk_overlap]
    /\ UNCHANGED <<chunkVars, graphVars, importVars, cacheVars>>

NextConfig == ConstructImportConfig

SpecConfig == InitConfig /\ [][NextConfig]_vars

(***************************************************************************)
(* Operations on a SearchCache.  Every operation holds the lock of the     *)
(* cache from start to end, so each is one step.                           *)
(***************************************************************************)
CacheKeyNames == 1..(MaxCacheSize + 1)
CacheValues == {"v1"}

\* the ttl argument: None (0), or a time to live shorter than the default
TtlArguments == {0, 1}

\* async with self._lock: a set that never returns keeps the lock, and nothing
\* else runs on the cache
Unlocked == lock = "free"

InitCache ==
    /\ IdleChunk
    /\ IdleGraph
    /\ IdleImport
    /\ IdleConfig
    /\ \E max_size \in {0, MaxCacheSize} : cache = NewSearchCache(max_size, 2)
    /\ now = 0
    /\ tasks = <<>>
    /\ lock = "free"

\* time passes
Tick ==
    /\ now < MaxTime
    /\ now' = now + 1
    /\ UNCHANGED <<chunkVars, graphVars, importVars, configVars, cache, tasks, lock>>

\* await cache.get(key)
CallGet ==
    /\ Unlocked
    /\ cache.stats.hits + cache.stats.misses + cache.stats.evictions < MaxCount
    /\ \E key \in CacheKeyNames :
           LET r == CacheGet(cache, key, now)
           IN  cache' = r.cache
    /\ UNCHANGED <<chunkVars, graphVars, importVars, configVars, now, tasks, lock>>

\* await cache.set(key, value, ttl)
CallSet ==
    /\ Unlocked
    /\ cache.stats.hits + cache.stats.misses + cache.stats.evictions < MaxCount
    /\ \E key \in CacheKeyNames, value \in CacheValues, ttl \in TtlArguments :
           LET r == CacheSet(cache, key, value, ttl, now)
           IN  /\ cache' = r.cache
               /\ lock' = IF r.diverges THEN "held" ELSE "free"
    /\ UNCHANGED <<chunkVars, graphVars, importVars, configVars, now, tasks>>

\* await cache.delete(key)
CallDelete ==
    /\ Unlocked
    /\ \E key \in CacheKeyNames :
           LET r == CacheDelete(cache, key)
           IN  cache' = r.cache
    /\ UNCHANGED <<chunkVars, graphVars, importVars, configVars, now, tasks, lock>>

\* await cache.clear()
CallClear ==
    /\ Unlocked
    /\ cache' = CacheClear(cache)
    /\ UNCHANGED <<chunkVars, graphVars, importVars, configVars, now, tasks, lock>>

\* the background task: await self._cleanup_expired()
CallCleanup ==
    /\ Unlocked
    /\ cache.stats.hits + cache.stats.misses + cache.stats.evictions < MaxCount
    /\ cache' = CleanupExpired(cache, now)
    /\ UNCHANGED <<chunkVars, graphVars, importVars, configVars, now, tasks, lock>>

NextCache == Tick \/ CallGet \/ CallSet \/ CallDelete \/ CallClear \/ CallCleanup

SpecCache == InitCache /\ [][NextCache]_vars

(***************************************************************************)
(* cached_search: concurrent calls on the global cache.  Each call is a    *)
(* task that stops at its awaits: cache.get, search_func, cache.set.  The  *)
(* global cache is a SearchCache() scaled down to one entry and a default  *)
(* ttl of one tick; the calls leave ttl at None.                           *)
(***************************************************************************)
\* two calls can be in progress at once
TaskIds == CallIds

\* the keys SearchCache.make_key gives to the searches that are made
SearchKeys == {1, 2}

\* what search_func can answer: a result, or None
SearchResults == {"v1", "None"}

\* a task slot with no call in it
NoTask == [pc |-> "idle", key |-> 0, ttl |-> 0, result |-> "none", live |-> FALSE]

\* a call that has returned its result, or raised
Returned(result) == [pc |-> "done", key |-> 0, ttl |-> 0, result |-> result, live |-> FALSE]

\* get_search_cache(): the global cache, created empty
InitSearch ==
    /\ IdleChunk
    /\ IdleGraph
    /\ IdleImport
    /\ IdleConfig
    /\ cache = NewSearchCache(1, 1)
    /\ now = 0
    /\ tasks = [t \in TaskIds |-> NoTask]
    /\ lock = "free"

\* the calls made so far: each does one get, counted as a hit or as a miss
CallsMade ==
    cache.stats.hits + cache.stats.misses
        + Cardinality({t \in TaskIds : tasks[t].pc = "get"})

\* the cache c holds at the given time an entry of the key that has not
\* expired
HoldsLive(c, key, time) ==
    /\ IndexOfKey(c.entries, key) # 0
    /\ ~IsExpired(c.entries[IndexOfKey(c.entries, key)], time)

\* cached_search(search_type, query, search_func, ttl, **kwargs) is called:
\* key = SearchCache.make_key(...); the task notes in live whether the cache
\* held a live entry of the key when the call was made
StartSearch ==
    /\ CallsMade < MaxCalls
    /\ \E t \in TaskIds, key \in SearchKeys :
           /\ tasks[t].pc \in {"idle", "done"}
           /\ tasks' = [tasks EXCEPT ![t] = [pc |-> "get", key |-> key, ttl |-> 0,
                                             result |-> "none",
                                             live |-> HoldsLive(cache, key, now)]]
    /\ UNCHANGED <<chunkVars, graphVars, importVars, configVars, cache, now, lock>>

\* cached_result = await cache.get(key); if cached_result is not None: return
SearchGet ==
    /\ Unlocked
    /\ \E t \in TaskIds :
           /\ tasks[t].pc = "get"
           /\ LET r == CacheGet(cache, tasks[t].key, now)
              IN  /\ cache' = r.cache
                  /\ tasks' = [tasks EXCEPT ![t] =
                                   IF r.returned # "None"
                                   THEN Returned(r.returned)
                                   ELSE [@ EXCEPT !.pc = "search"]]
    /\ UNCHANGED <<chunkVars, graphVars, importVars, configVars, now, lock>>

\* result = await search_func(query, **kwargs); an exception of search_func
\* leaves cached_search
SearchRun ==
    /\ \E t \in TaskIds, result \in SearchResults \cup {"raised"} :
           /\ tasks[t].pc = "search"
           /\ tasks' = [tasks EXCEPT ![t] =
                            IF result = "raised" THEN Returned("raised")
                            ELSE [@ EXCEPT !.pc = "set", !.result = result]]
    /\ UNCHANGED <<chunkVars, graphVars, importVars, configVars, cache, now, lock>>

\* await cache.set(key, result, ttl); return result
SearchSet ==
    /\ Unlocked
    /\ \E t \in TaskIds :
           /\ tasks[t].pc = "set"
           /\ LET r == CacheSet(cache, tasks[t].key, tasks[t].result, tasks[t].ttl, now)
              IN  /\ cache' = r.cache
                  /\ lock' = IF r.diverges THEN "held" ELSE "free"
                  /\ tasks' = [tasks EXCEPT ![t] =
                                   IF r.diverges THEN @ ELSE Returned(@.result)]
    /\ UNCHANGED <<chunkVars, graphVars, importVars, configVars, now>>

NextSearch == Tick \/ StartSearch \/ SearchGet \/ SearchRun \/ SearchSet

SpecSearch == InitSearch /\ [][NextSearch]_vars

(***************************************************************************)
(* Properties of the chunkers.                                             *)
(***************************************************************************)
CombinedText == CombineElementText(elements).combined

\* C1 (as claimed): for every chunk returned by chunk_elements, the substring
\* [start_char, end_char) of the concatenated element text equals the chunk's
\* text up to whitespace trimming.
C1_RoundTripOffsets ==
    pc = "chunked" =>
        \A k \in 1..Len(chunks) :
            Strip(Slice(CombinedText, chunks[k].start_char, chunks[k].end_char))
                = Strip(chunks[k].text)

\* C2: chunk_elements over a non-empty element list never emits a chunk whose
\* token_count is 0, for the sentence-boundary chunker and for the
\* morphology-aware chunker without its analyzer.
C2_NoZeroTokenChunk ==
    (pc = "chunked" /\ elements # <<>>) =>
        \A k \in 1..Len(chunks) : chunks[k].token_count > 0

\* C2 witness: a document of several elements that the chunker cut into
\* several chunks, the later ones seeded with overlap.
C2_Witness ==
    /\ pc = "chunked"
    /\ Len(elements) > 1
    /\ Len(chunks) > 1
    /\ chunker.chunk_overlap > 0
    /\ \A k \in 1..Len(chunks) : chunks[k].token_count > 0

\* C3 (as claimed): every chunk returned by chunk_elements over a non-empty
\* element list has at least one source element id, and its document_id is
\* the document id passed to chunk_elements.
C3_SourcesAndDocument ==
    (pc = "chunked" /\ elements # <<>>) =>
        \A k \in 1..Len(chunks) :
            /\ chunks[k].source_elements # <<>>
            /\ chunks[k].document_id = document_id

\* the sentences DefaultChunker.chunk_text put into its k-th chunk (none for a
\* chunk of the fixed-size fallback)
SentencesOfChunk(k) ==
    IF DefaultSplitSentences(text) = <<>> THEN <<>>
    ELSE DefaultPack(DefaultSplitSentences(text), 1, <<>>, <<>>,
                     chunker.chunk_size, chunker.chunk_overlap)[k]

HasOversizedSentence(k) ==
    \E i \in 1..Len(SentencesOfChunk(k)) :
        Len(SentencesOfChunk(k)[i]) > chunker.chunk_size

JoiningSpaces(k) ==
    IF SentencesOfChunk(k) = <<>> THEN 0 ELSE Len(SentencesOfChunk(k)) - 1

IsAdjacent(e) == e.correlation_type = "adjacent"
AdjacentEdges == SelectSeq(graph.edges, IsAdjacent)

\* x and y follow each other in chunk_index order
ConsecutiveByIndex(x, y) ==
    /\ x.chunk_index < y.chunk_index
    /\ ~\E k \in 1..Len(gchunks) :
           /\ x.chunk_index < gchunks[k].chunk_index
           /\ gchunks[k].chunk_index < y.chunk_index

\* C5: with build_adjacent, build_graph produces exactly max(n-1, 0) adjacent
\* edges, one for each pair of chunks consecutive in chunk_index order, from
\* the lower to the higher index, each of weight 1.0 and distance 1, whatever
\* the order of the list; without build_adjacent it produces none.
C5_AdjacentEdges ==
    gpc = "built" =>
        IF builder.build_adjacent
        THEN /\ Len(AdjacentEdges) = (IF gchunks = <<>> THEN 0 ELSE Len(gchunks) - 1)
             /\ \A i, j \in 1..Len(gchunks) :
                    ConsecutiveByIndex(gchunks[i], gchunks[j]) =>
                        Cardinality({k \in 1..Len(AdjacentEdges) :
                            /\ AdjacentEdges[k].source_chunk_id = gchunks[i].id
                            /\ AdjacentEdges[k].target_chunk_id = gchunks[j].id}) = 1
             /\ \A k \in 1..Len(AdjacentEdges) :
                    /\ AdjacentEdges[k].weight = One
                    /\ AdjacentEdges[k].metadata = [distance |-> 1]
        ELSE AdjacentEdges = <<>>

\* C5 witness: three or more chunks, handed over out of chunk_index order, with
\* their adjacent edges built.
C5_Witness ==
    /\ gpc = "built"
    /\ builder.build_adjacent
    /\ Len(gchunks) >= 3
    /\ gchunks[1].chunk_index > gchunks[2].chunk_index
    /\ Len(AdjacentEdges) = Len(gchunks) - 1

SameWords(i, j) ==
    /\ WordSet(gchunks[i].text) = WordSet(gchunks[j].text)
    /\ WordSet(gchunks[i].text) # {}

JoinedAtOne(i, j) ==
    \E k \in 1..Len(graph.edges) :
        /\ graph.edges[k].correlation_type = "semantic"
        /\ graph.edges[k].weight = One
        /\ {graph.edges[k].source_chunk_id, graph.edges[k].target_chunk_id}
             = {gchunks[i].id, gchunks[j].id}

\* C6 (as claimed): with semantic correlation enabled and a threshold <= 1.0,
\* any two chunks with identical non-empty word sets are joined by a semantic
\* edge of weight 1.0, whatever their chunk_index values.
C6_IdenticalWordsJoined ==
    (gpc = "built" /\ builder.build_semantic) =>
        \A i, j \in 1..Len(gchunks) :
            (i < j /\ SameWords(i, j)) => JoinedAtOne(i, j)

\* C6 (amended): ... any two chunks with identical non-empty word sets whose
\* chunk_index values differ by more than 1 are joined by a semantic edge of
\* weight 1.0.
C6_IdenticalWordsJoinedWhenApart ==
    (gpc = "built" /\ builder.build_semantic) =>
        \A i, j \in 1..Len(gchunks) :
            (/\ i < j
             /\ SameWords(i, j)
             /\ Abs(gchunks[i].chunk_index - gchunks[j].chunk_index) > 1)
                => JoinedAtOne(i, j)

\* C6 witness: two chunks more than one index apart whose texts differ in case
\* and spacing only, joined at the threshold 1.0.
C6_Witness ==
    /\ gpc = "built"
    /\ builder.build_semantic
    /\ builder.similarity_threshold = One
    /\ \E i, j \in 1..Len(gchunks) :
           /\ i < j
           /\ SameWords(i, j)
           /\ gchunks[i].text # gchunks[j].text
           /\ Abs(gchunks[i].chunk_index - gchunks[j].chunk_index) > 1
           /\ JoinedAtOne(i, j)

\* C7: on a graph created with node_count = n and no edges, after any sequence
\* of add_correlation calls edge_count is the length of the edge list and
\* density is edge_count / (n*(n-1)/2) when n > 1 and 0 otherwise.
C7_EdgeCountAndDensity ==
    gpc = "created" =>
        /\ graph.edge_count = Len(graph.edges)
        /\ graph.density =
             IF graph.node_count > 1
             THEN Frac(Len(graph.edges), (graph.node_count * (graph.node_count - 1)) \div 2)
             ELSE Zero

\* C7 witness: a graph of three or more nodes after two or more insertions.
C7_Witness ==
    /\ gpc = "created"
    /\ graph.node_count >= 3
    /\ Len(graph.edges) >= 2
    /\ graph.density # Zero

(***************************************************************************)
(* Properties of the importer.                                             *)
(***************************************************************************)
Ended(call) == call.status \in {"returned", "raised", "hung"}

\* C8: once import_document has started its pipeline, a failure in any stage
\* (parser error, exception in normalisation, chunking or graph building) does
\* not propagate: the call returns a result with status "error" and the
\* failure message appended to errors.
C8_StageFailureCaptured ==
    \A c \in CallIds :
        /\ calls[c].stages # <<>> => calls[c].status \in {"parsing", "returned"}
        /\ calls[c].status = "returned" =>
               IF calls[c].error = "none"
               THEN /\ calls[c].result.status = "success"
                    /\ calls[c].result.errors = <<>>
               ELSE /\ calls[c].result.status = "error"
                    /\ calls[c].result.errors = <<calls[c].error>>

\* a call returned after an exception in the chunking stage, with the elements
\* of the earlier stages in its result
C8_Witness ==
    \E c \in CallIds :
        /\ calls[c].status = "returned"
        /\ calls[c].error = "ChunkError"
        /\ calls[c].result.status = "error"
        /\ calls[c].result.elements # <<>>

ResultPaths == [k \in 1..Len(dir.results) |-> dir.results[k].source_path]
SkippedPaths == {dir.skipped[k] : k \in 1..Len(dir.skipped)}

C11_OnlySuccessfulResults ==
    dir.status = "returned" =>
        \A k \in 1..Len(dir.results) :
            /\ dir.results[k].status = "success"
            /\ dir.results[k].errors = <<>>

\* what chunk_elements gives for the elements of a result under the sizes of cfg
ChunksUnder(result, cfg) ==
    ChunkElements(GetChunkerFor(result.language, cfg.chunk_size, cfg.chunk_overlap),
                  result.elements, result.id).chunks

\* C12 (as claimed): import_document(path, config=c) chunks the document with
\* c.chunk_size and c.chunk_overlap, whatever configuration the importer was
\* constructed with and whatever earlier calls have put in the chunker cache.
C12_OverrideConfigChunks ==
    \A c \in CallIds :
        (calls[c].status = "returned" /\ calls[c].error = "none") =>
            calls[c].result.chunks = ChunksUnder(calls[c].result, calls[c].cfg)

\* C13 (as claimed): the language that selects the chunker and is recorded in
\* document_metadata.language is the default_language of the ImportConfig when
\* auto_detect_language is false, and also when it is true but no element
\* carries a known language; otherwise it is the detected document language.
C13_LanguageOrConfiguredDefault ==
    \A c \in CallIds :
        (calls[c].status = "returned" /\ calls[c].error = "none") =>
            LET detected == DetectDocumentLanguage(calls[c].result.elements)
                expected == IF ~calls[c].cfg.auto_detect_language \/ detected = "unknown"
                            THEN calls[c].cfg.default_language
                            ELSE detected
            IN  /\ calls[c].result.language = expected
                /\ \A k \in 1..Len(calls[c].result.chunks) :
                       calls[c].result.chunks[k].language = expected

\* C14: in the list returned by chunk_elements, chunk_index equals the list
\* position (0, 1, ..., n-1) and the chunks follow document order: for chunks
\* i < j, start_char of i is strictly less than start_char of j.
C14_IndexAndOrder ==
    pc = "chunked" =>
        /\ \A k \in 1..Len(chunks) : chunks[k].chunk_index = k - 1
        /\ \A i, j \in 1..Len(chunks) :
               i < j => chunks[i].start_char < chunks[j].start_char

\* chunk_elements returned three chunks, two of them with the same text
C14_Witness ==
    /\ pc = "chunked"
    /\ Len(chunks) >= 3
    /\ \E i, j \in 1..Len(chunks) : i < j /\ chunks[i].text = chunks[j].text

\* C15 (as claimed): the construction of an ImportConfig is rejected when
\* chunk_size is outside [100, 10000], when chunk_overlap is negative, and
\* when chunk_overlap is not strictly less than chunk_size; every constructed
\* ImportConfig has 0 <= chunk_overlap < chunk_size.
C15_ConstructedConfigIsSound ==
    /\ made.status = "constructed" =>
           /\ made.chunk_size >= MIN_CHUNK_SIZE
           /\ made.chunk_size <= MAX_CHUNK_SIZE
           /\ 0 <= made.chunk_overlap
           /\ made.chunk_overlap < made.chunk_size
    /\ (made.status # "none"
            /\ (made.chunk_size < MIN_CHUNK_SIZE \/ made.chunk_size > MAX_CHUNK_SIZE
                    \/ made.chunk_overlap < 0 \/ made.chunk_overlap >= made.chunk_size))
       => made.status = "rejected"

\* the calls that have asked _get_chunker for a chunker
Requested(c) == calls[c].chunker # <<"none">>

\* C16: the chunker cache has get-or-create semantics: after any sequence of
\* import_document calls on one importer, every request for a language has
\* returned the one chunker made by the first request for that language, which
\* is the one the cache holds, so at most one chunker was made per language.
C16_OneChunkerPerLanguage ==
    \A c \in CallIds :
        Requested(c) =>
            /\ calls[c].result.language \in DOMAIN chunkers
            /\ chunkers[calls[c].result.language].instance = calls[c].chunker
            /\ \A d \in CallIds :
                   (Requested(d) /\ calls[d].result.language = calls[c].result.language)
                       => calls[d].chunker = calls[c].chunker

\* two calls have asked for a chunker of the same language and have returned
C16_Witness ==
    \E c, d \in CallIds :
        /\ c # d
        /\ Requested(c)
        /\ Requested(d)
        /\ calls[c].status = "returned"
        /\ calls[d].status = "returned"
        /\ calls[c].result.language = calls[d].result.language

\* a step that stores a key the cache did not hold while the cache was full
SetOfNewKeyOnFullCache ==
    /\ cache.entries # <<>>
    /\ Len(cache.entries) >= cache.max_size
    /\ CacheKeys(cache') \ CacheKeys(cache) # {}

\* the step removed one entry of smallest created_at, kept every other entry as
\* it was and in its place, and put the new entry last
EvictedExactlyTheOldest ==
    \E k \in 1..Len(cache.entries) :
        /\ \A j \in 1..Len(cache.entries) :
               cache.entries[k].created_at <= cache.entries[j].created_at
        /\ Len(cache'.entries) = Len(cache.entries)
        /\ SubSeq(cache'.entries, 1, Len(cache.entries) - 1) = RemoveAt(cache.entries, k)
        /\ cache'.entries[Len(cache'.entries)].key \notin CacheKeys(cache)

\* C17: whatever operations have run on a SearchCache, it never stores more
\* than max_size entries, and a set of a new key on a full cache evicts exactly
\* the entry with the smallest created_at and keeps all others.
C17_BoundedAndEvictsOldest ==
    /\ [](Len(cache.entries) <= cache.max_size)
    /\ [][SetOfNewKeyOnFullCache => EvictedExactlyTheOldest]_vars

\* a full cache of at least two live entries of different ages after an
\* eviction
C17_Witness ==
    /\ cache.max_size >= 2
    /\ Len(cache.entries) = cache.max_size
    /\ cache.stats.evictions >= 1
    /\ \A k \in 1..Len(cache.entries) : ~IsExpired(cache.entries[k], now)
    /\ cache.entries[1].created_at < cache.entries[Len(cache.entries)].created_at

\* the task t does its cache.get in this step, having been called while the
\* cache held a live entry of its key, and the entry is still live
LaterCallLooksUp(t) ==
    /\ tasks[t].pc = "get"
    /\ tasks'[t].pc # "get"
    /\ tasks[t].live
    /\ HoldsLive(cache, tasks[t].key, now)

\* C18 (as claimed): once a call for a key has completed, a later call with the
\* same key made while the entry is neither expired nor evicted returns the
\* stored result and does not invoke search_func again.
C18_LiveEntryServedWithoutSearch ==
    [][\A t \in TaskIds :
           LaterCallLooksUp(t) =>
               tasks'[t] = Returned(cache.entries[IndexOfKey(cache.entries,
                                                              tasks[t].key)].value)]_vars

\* the offset of the k-th element in the concatenation: the texts before it
\* and one separator after each of them
RECURSIVE ElementStart(_)
ElementStart(k) ==
    IF k = 1 THEN 0
    ELSE ElementStart(k - 1) + Len(elements[k - 1].text) + Len(SEPARATOR)

ElementEnd(k) == ElementStart(k) + Len(elements[k].text)

\* the ids, in document order, of the elements whose span overlaps [from, to)
RECURSIVE OverlappingFrom(_, _, _)
OverlappingFrom(k, from, to) ==
    IF k > Len(elements) THEN <<>>
    ELSE (IF ElementStart(k) < to /\ ElementEnd(k) > from
          THEN <<elements[k].id>> ELSE <<>>)
         \o OverlappingFrom(k + 1, from, to)

\* every chunk names exactly the elements whose span overlaps its own span
SourcesAreTheOverlappingElements ==
    \A k \in 1..Len(chunks) :
        chunks[k].source_elements
            = OverlappingFrom(1, chunks[k].start_char, chunks[k].end_char)

\* C19 (as claimed): for every chunk of chunk_elements, source_elements is the
\* list, in document order, of the elements whose span [start, end) in the
\* concatenated text overlaps [start_char, end_char), and every element span
\* lies inside the concatenated text that was chunked.
C19_SourcesAndSpansInsideText ==
    (pc = "chunked" /\ elements # <<>>) =>
        /\ SourcesAreTheOverlappingElements
        /\ \A k \in 1..Len(elements) :
               0 <= ElementStart(k) /\ ElementEnd(k) <= Len(CombinedText)

\* the whitespace at the end of the last element, which the final rstrip()
\* of the concatenation removes
TrailingWhitespace == Len(elements[Len(elements)].text) - Len(RStrip(elements[Len(elements)].text))

\* C19 (amended): source_elements is exactly the list of overlapping elements;
\* every element span begins inside the chunked text, every span but the last
\* lies inside it, and the last ends beyond it by exactly the whitespace its
\* text ends with.
C19_SourcesAndSpansUpToTrailingWhitespace ==
    (pc = "chunked" /\ elements # <<>>) =>
        /\ SourcesAreTheOverlappingElements
        /\ \A k \in 1..Len(elements) :
               /\ 0 <= ElementStart(k)
               /\ ElementStart(k) < Len(CombinedText)
               /\ k < Len(elements) => ElementEnd(k) <= Len(CombinedText)
        /\ ElementEnd(Len(elements)) = Len(CombinedText) + TrailingWhitespace

\* chunk_elements returned chunks of two elements, one chunk with a single
\* source element, and the last element ends with whitespace
C19_Witness ==
    /\ pc = "chunked"
    /\ Len(elements) = 2
    /\ TrailingWhitespace > 0
    /\ \E k \in 1..Len(chunks) : Len(chunks[k].source_elements) = 1
    /\ \E k \in 1..Len(chunks) : Len(chunks[k].source_elements) = 2

\* the sentences of the text and the chunks of chunk_text as lists of sentences
Sentences == DefaultSplitSentences(text)

Packed == DefaultPack(Sentences, 1, <<>>, <<>>, chunker.chunk_size, chunker.chunk_overlap)

\* the last n sentences of a chunk
LastOf(group, n) == SubSeq(group, Len(group) - n + 1, Len(group))

\* the length of the longest trailing run of sentences of the j-th chunk whose
\* combined length is at most chunk_overlap
LongestRun(j) ==
    MaxOf({n \in 0..Len(Packed[j]) : SumLen(LastOf(Packed[j], n)) <= chunker.chunk_overlap})

\* the number of sentences of the text read when the j-th chunk was flushed
RECURSIVE ReadUpTo(_)
ReadUpTo(j) ==
    IF j = 1 THEN Len(Packed[1])
    ELSE ReadUpTo(j - 1) + Len(Packed[j]) - LongestRun(j - 1)

\* C20: in DefaultChunker.chunk_text with chunk_overlap > 0, the chunk after a
\* flushed chunk begins with the longest trailing run of whole sentences of the
\* flushed chunk whose combined length is at most chunk_overlap, in their
\* order, followed by the sentence that triggered the flush; what is carried
\* is whole sentences only.
C20_OverlapIsLongestTrailingRun ==
    (pc = "texted" /\ chunker.kind = "default" /\ chunker.chunk_overlap > 0
         /\ Sentences # <<>>) =>
        /\ text_chunks = JoinEach(Packed)
        /\ \A j \in 1..(Len(Packed) - 1) :
               LET run == LongestRun(j)
                   next == Packed[j + 1]
               IN  /\ Len(next) > run
                   /\ SubSeq(next, 1, run) = LastOf(Packed[j], run)
                   /\ ReadUpTo(j) < Len(Sentences)
                   /\ next[run + 1] = Sentences[ReadUpTo(j) + 1]
                   /\ SumLen(Packed[j]) + Len(next[run + 1]) > chunker.chunk_size
                   /\ SubSeq(next, run + 1, Len(next))
                          = SubSeq(Sentences, ReadUpTo(j) + 1, ReadUpTo(j + 1))

\* chunk_text flushed a chunk and carried two or more of its sentences, not all
C20_Witness ==
    /\ pc = "texted"
    /\ chunker.kind = "default"
    /\ chunker.chunk_overlap > 0
    /\ Sentences # <<>>
    /\ \E j \in 1..(Len(Packed) - 1) : LongestRun(j) >= 2 /\ LongestRun(j) < Len(Packed[j])

\* the flushes of JapaneseChunker.chunk_text: for each, the buffer that was
\* flushed and what was kept of it for the next chunk
RECURSIVE JapaneseFlushes(_, _, _, _)
JapaneseFlushes(sentences, k, current_chunk, acc) ==
    IF k > Len(sentences) THEN acc
    ELSE LET flush == /\ Len(current_chunk) + Len(sentences[k]) > chunker.chunk_size
                      /\ current_chunk # <<>>
             kept == IF flush THEN JapaneseOverlap(current_chunk, chunker.chunk_overlap)
                     ELSE current_chunk
         IN  JapaneseFlushes(sentences, k + 1, kept \o sentences[k],
                             IF flush
                             THEN Append(acc, [buffer |-> current_chunk, kept |-> kept])
                             ELSE acc)

UnitMarks == PHRASE_MARKERS \cup SENTENCE_ENDINGS

\* kept is a suffix of the buffer that begins right after a sentence or phrase
\* mark and not with one
BoundaryAligned(buffer, kept) ==
    LET at == Len(buffer) - Len(kept)
    IN  /\ kept = Slice(buffer, at, Len(buffer))
        /\ kept[1] \notin UnitMarks
        /\ at = 0 \/ buffer[at] \in UnitMarks

\* C21 (as claimed): in JapaneseChunker.chunk_text without the analyzer, the
\* text carried into the next chunk after a flush is a suffix of the flushed
\* buffer of length at most chunk_overlap that starts at the beginning of a
\* sentence or phrase unit: never inside a unit, never with the punctuation
\* that ends the previous unit.
C21_CarriedTextIsBoundaryAligned ==
    (pc = "texted" /\ chunker.kind = "japanese") =>
        LET flushes == JapaneseFlushes(JapaneseSplitSentences(text), 1, <<>>, <<>>)
        IN  \A f \in 1..Len(flushes) :
                flushes[f].kept # <<>> =>
                    /\ Len(flushes[f].kept) <= chunker.chunk_overlap
                    /\ BoundaryAligned(flushes[f].buffer, flushes[f].kept)

\* the sentences chunk_text splits the text into
SplitSentences ==
    IF chunker.kind = "japanese" THEN JapaneseSplitSentences(text)
    ELSE DefaultSplitSentences(text)

\* the k-th sentence is longer than chunk_size
Oversized(k) == Len(SplitSentences[k]) > chunker.chunk_size

\* the c-th chunk ends with the whole sentence s, and lead is what it holds
\* before s
EndsWith(c, s) ==
    /\ Len(text_chunks[c]) >= Len(s)
    /\ Slice(text_chunks[c], Len(text_chunks[c]) - Len(s), Len(text_chunks[c])) = s

Lead(c, s) == Slice(text_chunks[c], 0, Len(text_chunks[c]) - Len(s))

\* s is a suffix of t
IsSuffix(s, t) == Len(s) <= Len(t) /\ Slice(t, Len(t) - Len(s), Len(t)) = s

\* C22 (as claimed): in both chunkers a sentence longer than chunk_size is not
\* split and is emitted as a chunk of its own: the chunk holds no other
\* sentence text, neither buffered sentences before it, nor overlap carried
\* from the previous chunk, nor sentences after it.
C22_OversizedSentenceAlone ==
    (pc = "texted" /\ SplitSentences # <<>>) =>
        \A k \in 1..Len(SplitSentences) :
            Oversized(k) =>
                \E c \in 1..Len(text_chunks) : text_chunks[c] = SplitSentences[k]

\* C22 (amended): a sentence longer than chunk_size is not split: some chunk
\* ends with the whole sentence, and before it that chunk holds nothing, or
\* only overlap carried from the previous chunk: the end of that chunk, of at
\* most chunk_overlap characters besides the spaces that join sentences.
C22_OversizedSentenceAfterOverlapOnly ==
    (pc = "texted" /\ SplitSentences # <<>>) =>
        \A k \in 1..Len(SplitSentences) :
            Oversized(k) =>
                \E c \in 1..Len(text_chunks) :
                    /\ EndsWith(c, SplitSentences[k])
                    /\ \/ Lead(c, SplitSentences[k]) = <<>>
                       \/ /\ c > 1
                          /\ chunker.chunk_overlap > 0
                          /\ Cardinality(Inked(Lead(c, SplitSentences[k])))
                                 <= chunker.chunk_overlap
                          /\ IsSuffix(Strip(Lead(c, SplitSentences[k])), text_chunks[c - 1])

\* the JapaneseChunker returned a chunk that holds a sentence longer than
\* chunk_size after text carried from the chunk before
C22_Witness ==
    /\ pc = "texted"
    /\ chunker.kind = "japanese"
    /\ \E k \in 1..Len(SplitSentences), c \in 2..Len(text_chunks) :
           /\ Oversized(k)
           /\ EndsWith(c, SplitSentences[k])
           /\ Lead(c, SplitSentences[k]) # <<>>
           /\ IsSuffix(Lead(c, SplitSentences[k]), text_chunks[c - 1])

\* the similarity of the i-th and j-th chunk of the list: the share of the
\* words of both among the words of either, as a pair <<shared, all>>
SharedWords(i, j) == Cardinality(WordSet(gchunks[i].text) \cap WordSet(gchunks[j].text))

AllWords(i, j) == Cardinality(WordSet(gchunks[i].text) \cup WordSet(gchunks[j].text))

\* the pair is more than one chunk_index apart and similar enough: its
\* similarity, 0 when neither chunk has a word, is at least the threshold
SemanticPair(i, j) ==
    /\ Abs(gchunks[i].chunk_index - gchunks[j].chunk_index) > 1
    /\ IF AllWords(i, j) = 0
       THEN builder.similarity_threshold.num <= 0
       ELSE SharedWords(i, j) * builder.similarity_threshold.den
                >= builder.similarity_threshold.num * AllWords(i, j)

\* the semantic edges between the i-th and the j-th chunk, in either direction
SemanticEdgesOf(i, j) ==
    {k \in 1..Len(graph.edges) :
        /\ graph.edges[k].correlation_type = "semantic"
        /\ {graph.edges[k].source_chunk_id, graph.edges[k].target_chunk_id}
             = {gchunks[i].id, gchunks[j].id}}

\* C23: with semantic correlation enabled, build_graph adds a semantic edge for
\* a pair of chunks exactly when their chunk_index values differ by more than 1
\* and the Jaccard similarity of their lower-cased word sets (0 when both are
\* empty) is at least similarity_threshold; the edge's weight is that
\* similarity, its source is the chunk earlier in the list, and the pair has
\* exactly one semantic edge.
C23_SemanticEdgesExactly ==
    (gpc = "built" /\ builder.build_semantic) =>
        \A i, j \in 1..Len(gchunks) :
            i < j =>
                IF SemanticPair(i, j)
                THEN /\ Cardinality(SemanticEdgesOf(i, j)) = 1
                     /\ \A k \in SemanticEdgesOf(i, j) :
                            /\ graph.edges[k].source_chunk_id = gchunks[i].id
                            /\ graph.edges[k].target_chunk_id = gchunks[j].id
                            /\ graph.edges[k].weight.num * AllWords(i, j)
                                   = SharedWords(i, j) * graph.edges[k].weight.den
                            /\ graph.edges[k].weight.den > 0
                ELSE SemanticEdgesOf(i, j) = {}

\* build_graph joined two chunks that share half of their words, the later in
\* chunk_index first in the list, and left another pair far apart unjoined
C23_Witness ==
    /\ gpc = "built"
    /\ builder.build_semantic
    /\ \E i, j \in 1..Len(gchunks) :
           /\ i < j
           /\ gchunks[i].chunk_index > gchunks[j].chunk_index
           /\ SemanticPair(i, j)
           /\ SharedWords(i, j) < AllWords(i, j)
           /\ SemanticEdgesOf(i, j) # {}
    /\ \E i, j \in 1..Len(gchunks) :
           /\ i < j
           /\ Abs(gchunks[i].chunk_index - gchunks[j].chunk_index) > 1
           /\ SemanticEdgesOf(i, j) = {}

\* C24 (as claimed): chunk_text terminates for every text and every
\* configuration with chunk_size >= 1 and 0 <= chunk_overlap < chunk_size, in
\* both chunkers and on every path, the fixed-size fallbacks included: no call
\* is left running for ever.
C24_ChunkTextTerminates ==
    (chunker.chunk_size >= 1 /\ 0 <= chunker.chunk_overlap
         /\ chunker.chunk_overlap < chunker.chunk_size)
        => pc # "hung"

\* C25 (as claimed): every chunk returned by chunk_elements has its offsets
\* inside the concatenated element text, 0 <= start_char < end_char <= length
\* of the concatenation, also when the search for the chunk text fails and the
\* offset falls back to the search position.
C25_OffsetsInsideText ==
    (pc = "chunked" /\ elements # <<>>) =>
        \A k \in 1..Len(chunks) :
            /\ 0 <= chunks[k].start_char
            /\ chunks[k].start_char < chunks[k].end_char
            /\ chunks[k].end_char <= Len(CombinedText)

\* the chunks have the chunk_index values 0..n-1, as chunk_elements numbers them
IndexedFromZero ==
    {gchunks[k].chunk_index : k \in 1..Len(gchunks)} = 0..(Len(gchunks) - 1)

\* the two chunks the k-th edge joins
Ends(k) == {graph.edges[k].source_chunk_id, graph.edges[k].target_chunk_id}

GraphNodes == {graph.nodes[k] : k \in 1..Len(graph.nodes)}

\* C26: the graph build_graph returns for chunks with chunk_index 0..n-1 is a
\* simple graph: every edge joins two different nodes of the graph, no pair of
\* chunks is joined by more than one edge (so never by an adjacent and a
\* semantic edge), edge_count <= n*(n-1)/2 and density <= 1.
C26_SimpleGraph ==
    (gpc = "built" /\ IndexedFromZero) =>
        /\ \A k \in 1..Len(graph.edges) :
               /\ Ends(k) \subseteq GraphNodes
               /\ Cardinality(Ends(k)) = 2
        /\ \A k, m \in 1..Len(graph.edges) : k < m => Ends(k) # Ends(m)
        /\ graph.node_count = Len(gchunks)
        /\ 2 * graph.edge_count <= Len(gchunks) * (Len(gchunks) - 1)
        /\ FracGE(One, graph.density)

\* build_graph returned the complete graph of three chunks numbered 0..2 and
\* handed over out of order: two adjacent edges and a semantic one
C26_Witness ==
    /\ gpc = "built"
    /\ IndexedFromZero
    /\ Len(gchunks) = 3
    /\ gchunks[1].chunk_index > gchunks[2].chunk_index
    /\ graph.edge_count = 3
    /\ graph.density = One
    /\ \E k \in 1..Len(graph.edges) : graph.edges[k].correlation_type = "semantic"

\* the import_document calls that have returned a result
ReturnedCalls == {c \in CallIds : calls[c].status = "returned"}

\* C27 (as claimed): whenever import_document returns a result that carries a
\* correlation graph, the graph belongs to that document: graph.document_id
\* equals result.id, graph.node_count equals result.chunk_count, and every
\* chunk's document_id equals result.id, also when the document yields no
\* chunk.
C27_GraphBelongsToDocument ==
    \A c \in ReturnedCalls :
        calls[c].result.correlation_graph # <<>> =>
            /\ calls[c].result.correlation_graph[1].document_id = calls[c].result.id
            /\ calls[c].result.correlation_graph[1].node_count = calls[c].result.chunk_count
            /\ \A k \in 1..Len(calls[c].result.chunks) :
                   calls[c].result.chunks[k].document_id = calls[c].result.id

\* C28: on every return of import_document, whether the pipeline succeeded or
\* failed at any stage, the result is consistent: element_count is the number
\* of elements, chunk_count the number of chunks, total_tokens the sum of the
\* chunks' token_count, status is "success" exactly when errors is empty, and a
\* correlation graph is present only if status is "success" and
\* build_correlation_graph is enabled.
C28_ResultConsistent ==
    \A c \in ReturnedCalls :
        /\ calls[c].result.element_count = Len(calls[c].result.elements)
        /\ calls[c].result.chunk_count = Len(calls[c].result.chunks)
        /\ calls[c].result.total_tokens = SumTokens(calls[c].result.chunks)
        /\ calls[c].result.status \in {"success", "error"}
        /\ (calls[c].result.status = "success") <=> (calls[c].result.errors = <<>>)
        /\ calls[c].result.correlation_graph # <<>> =>
               /\ calls[c].result.status = "success"
               /\ calls[c].cfg.build_correlation_graph

\* one call has returned a success with chunks and a graph, another an error
\* met after the elements were stored
C28_Witness ==
    \E c, d \in ReturnedCalls :
        /\ calls[c].result.status = "success"
        /\ calls[c].result.chunk_count > 0
        /\ calls[c].result.total_tokens > 0
        /\ calls[c].result.correlation_graph # <<>>
        /\ calls[d].result.status = "error"
        /\ calls[d].result.element_count > 0
        /\ calls[d].result.errors # <<>>

\* C29 (as claimed): after every completed SearchCache operation (set, get
\* including a get that finds an expired entry, delete, clear, expiry
\* cleanup), the reported statistic stats.size equals the number of entries
\* stored in the cache.
C29_SizeIsEntryCount == Unlocked => cache.stats.size = Len(cache.entries)

\* the call c is handed its chunker in this step
GetsChunker(c) == ~Requested(c) /\ calls'[c].chunker # <<"none">>

\* a step keeps every stored chunker and stores at most one chunker more
StoredChunkersKept ==
    /\ \A l \in DOMAIN chunkers : l \in DOMAIN chunkers' /\ chunkers'[l] = chunkers[l]
    /\ Cardinality(DOMAIN chunkers') <= Cardinality(DOMAIN chunkers) + 1

\* a call is handed the stored chunker of its language, which is a new one,
\* made by this call, only when none was stored for the language
HandedTheStoredChunker ==
    \A c \in CallIds :
        GetsChunker(c) =>
            LET l == calls'[c].result.language
            IN  /\ l \in DOMAIN chunkers'
                /\ calls'[c].chunker = chunkers'[l].instance
                /\ (l \notin DOMAIN chunkers) <=> (calls'[c].chunker = calls'[c].result.id)
                /\ \A k \in (DOMAIN chunkers') \ {l} : k \in DOMAIN chunkers

\* C30: when several import_document calls run at once on one importer,
\* interleaving at the await of the parser, the chunker cache stays consistent
\* without a lock: no step replaces or drops a stored chunker, a chunker is made
\* and stored only for a language that has none, so at most one per language,
\* and every call is handed the stored chunker of its language.
C30_ChunkerCacheConsistentUnderInterleaving ==
    [][StoredChunkersKept /\ HandedTheStoredChunker]_vars

\* two calls were in progress at once and have returned: the call that began
\* first was chunked with the chunker made by the call that began second, so
\* the second call ran from start to end while the first awaited the parser
C30_Witness ==
    /\ {"c1", "c2"} \subseteq ReturnedCalls
    /\ calls["c1"].chunker = calls["c2"].result.id
    /\ calls["c2"].chunker = calls["c2"].result.id
    /\ calls["c1"].result.language = calls["c2"].result.language
    /\ chunkers[calls["c1"].result.language].instance = calls["c2"].result.id

====
